---- MODULE Spec2Model ----
(***************************************************************************)
(* Reverse-swap engine of the SDK: the swap store (persist/reverseswap.rs) *)
(* and the orchestrator BTCSendSwap (reverseswap.rs): create_reverse_swap, *)
(* on_event, execute_pending_reverse_swaps, refresh_monitored_reverse_swaps *)
(* and create_claim_tx.  The swap provider and the chain service are       *)
(* external: every answer they give is a nondeterministic input.           *)
(***************************************************************************)
EXTENDS Integers, Sequences, FiniteSets, TLC

\* ------------------------------------------------------------------------
\* Bounds
\* ------------------------------------------------------------------------
\* number of distinct swap ids the provider hands out
MaxSwaps == 2

SwapIds == 1 .. MaxSwaps

\* ------------------------------------------------------------------------
\* Data model
\* ------------------------------------------------------------------------
\* values of the boltz_api_status column (the provider's vocabulary)
BoltzStatuses ==
    {"SwapCreated", "LockTxMempool", "LockTxConfirmed", "InvoiceSettled", "SwapExpired"}

\* boltz_api_status of a freshly created swap
SwapCreated == "SwapCreated"

\* ReverseSwapInfo::status(): the ReverseSwapStatus of a record
status(rs) ==
    CASE rs.boltz_api_status = "SwapCreated"     -> "Created"
      [] rs.boltz_api_status = "LockTxMempool"   -> "LockTxUnconfirmed"
      [] rs.boltz_api_status = "LockTxConfirmed" -> "LockTxConfirmed"
      [] rs.boltz_api_status = "InvoiceSettled"  -> "ClaimTxSeen"
      [] rs.boltz_api_status = "SwapExpired"     -> "Expired"

\* Address::from_str on the strings of the model: a parse failure, or the
\* network, the address type (None for a witness program of no known type)
\* and the script the address commits to
AddressFromStr(s) ==
    CASE s = "bc1q_dest"   -> [ok |-> TRUE, network |-> "bitcoin", address_type |-> "P2wpkh", script |-> "key_D"]
      [] s = "tb1q_dest"   -> [ok |-> TRUE, network |-> "testnet", address_type |-> "P2wpkh", script |-> "key_D"]
      [] s = "bc1q_lock_A" -> [ok |-> TRUE, network |-> "bitcoin", address_type |-> "P2wsh", script |-> "htlc_A"]
      [] s = "bc1q_lock_B" -> [ok |-> TRUE, network |-> "bitcoin", address_type |-> "P2wsh", script |-> "htlc_B"]
      [] s = "3_lock"      -> [ok |-> TRUE, network |-> "bitcoin", address_type |-> "P2sh", script |-> "htlc_A"]
      [] s = "bc1z_lock"   -> [ok |-> TRUE, network |-> "bitcoin", address_type |-> "None", script |-> "htlc_A"]
      [] OTHER             -> [ok |-> FALSE, network |-> "none", address_type |-> "none", script |-> "none"]

\* BTCSendSwap._network: the network the engine is configured for; the
\* field is stored by new() and read nowhere
_network == "bitcoin"

\* destination addresses a caller passes to create
DestinationInputs == {"not an address", "bc1q_dest", "tb1q_dest"}

\* the amount a caller asks for and the amount the provider locks
RequestedAmounts == {100000}
LockedAmounts == {99500}

\* seeds of the random generator behind create_swap_keys
Seeds == {1, 2}

\* crate::swap::create_swap_keys: fresh preimage and private key
create_swap_keys(seed) ==
    [preimage |-> <<"preimage", seed>>, priv_key |-> <<"priv_key", seed>>]

\* preimage_hash_bytes(): SHA-256 of the preimage
preimage_hash_bytes(keys) == <<"sha256", keys.preimage>>

\* public_key(): the public key of the private key
public_key(keys) == <<"pub_key", keys.priv_key[2]>>

\* SystemTime::now() in unix seconds
Clock == {1700000000}

\* ------------------------------------------------------------------------
\* State
\* ------------------------------------------------------------------------
VARIABLES
    reverse_swaps,       \* table reverse_swaps, rows in insertion order
    reverse_swaps_info,  \* table reverse_swaps_info, rows in insertion order
    overflow_checks,     \* build profile: TRUE panics on integer overflow, FALSE wraps
    last_create,         \* the create_reverse_swap call of this step, when observed
    last_claim_tx,       \* the create_claim_tx call of this step, when observed
    last_store_op,       \* the call of the swap store of this step, when observed
    last_sign_url,       \* the sign_moon_pay_url call of this step, when observed
    task,                \* per chain-event handler: position and locals
    trace                \* per chain-event handler: what the current cycle has done

vars == <<reverse_swaps, reverse_swaps_info, overflow_checks, last_create, last_claim_tx,
          last_store_op, last_sign_url, task, trace>>

\* no sign_moon_pay_url call happened
NoSignUrl == [called |-> FALSE, op |-> "none"]

\* ------------------------------------------------------------------------
\* Swap store (persist/reverseswap.rs)
\* ------------------------------------------------------------------------
\* the row of table reverse_swaps for a record
SwapRow(rsi) ==
    [id |-> rsi.id, created_at |-> rsi.created_at,
     local_preimage |-> rsi.local_preimage, local_private_key |-> rsi.local_private_key,
     destination_address |-> rsi.destination_address,
     boltz_api_status |-> rsi.boltz_api_status,
     hodl_bolt11 |-> rsi.hodl_bolt11, redeem_script |-> rsi.redeem_script]

\* the row of table reverse_swaps_info for a record
InfoRow(rsi) ==
    [id |-> rsi.id, lockup_address |-> rsi.cache.lockup_address,
     onchain_amount_sat |-> rsi.cache.onchain_amount_sat]

\* the id column is the primary key of both tables
PrimaryKeyViolation(table, id) == \E k \in 1 .. Len(table) : table[k].id = id

\* points at which insert_reverse_swap can fail for a reason of the database
InsertFaults == {"none", "connection", "insert_swap", "insert_info", "commit"}

\* insert_reverse_swap on tables without a key: a row with a stored id is
\* inserted next to the old one
insert_reverse_swap_without_key(swaps, infos, rsi, fault) ==
    LET failed(e) == [ok |-> FALSE, error |-> e, swaps |-> swaps, infos |-> infos]
        swaps1 == Append(swaps, SwapRow(rsi))
        infos1 == Append(infos, InfoRow(rsi))
    IN  IF fault = "connection" THEN failed("connection")
        ELSE IF fault = "insert_swap" THEN failed("insert_swap")
        ELSE IF fault = "insert_info" THEN failed("insert_info")
        ELSE IF fault = "commit" THEN failed("commit")
        ELSE [ok |-> TRUE, error |-> "", swaps |-> swaps1, infos |-> infos1]

\* insert_reverse_swap that keeps the first INSERT when a later step fails
insert_reverse_swap_without_transaction(swaps, infos, rsi, fault) ==
    LET failed(e) == [ok |-> FALSE, error |-> e, swaps |-> swaps, infos |-> infos]
        swaps1 == Append(swaps, SwapRow(rsi))
        infos1 == Append(infos, InfoRow(rsi))
    IN  IF fault = "connection" THEN failed("connection")
        ELSE IF fault = "insert_swap" THEN failed("insert_swap")
        ELSE IF PrimaryKeyViolation(swaps, rsi.id) THEN failed("UNIQUE constraint failed")
        ELSE IF fault = "insert_info"
             THEN [ok |-> FALSE, error |-> "insert_info", swaps |-> swaps1, infos |-> infos]
        ELSE IF PrimaryKeyViolation(infos, rsi.id)
             THEN [ok |-> FALSE, error |-> "UNIQUE constraint failed",
                   swaps |-> swaps1, infos |-> infos]
        ELSE [ok |-> TRUE, error |-> "", swaps |-> swaps1, infos |-> infos1]

\* insert_reverse_swap with INSERT OR REPLACE: a row with a stored id takes
\* the place of the old one
insert_reverse_swap_or_replace(swaps, infos, rsi, fault) ==
    LET failed(e) == [ok |-> FALSE, error |-> e, swaps |-> swaps, infos |-> infos]
        Put(table, row) ==
            IF PrimaryKeyViolation(table, row.id)
            THEN [k \in 1 .. Len(table) |-> IF table[k].id = row.id THEN row ELSE table[k]]
            ELSE Append(table, row)
    IN  IF fault = "connection" THEN failed("connection")
        ELSE IF fault = "insert_swap" THEN failed("insert_swap")
        ELSE IF fault = "insert_info" THEN failed("insert_info")
        ELSE IF fault = "commit" THEN failed("commit")
        ELSE [ok |-> TRUE, error |-> "",
              swaps |-> Put(swaps, SwapRow(rsi)), infos |-> Put(infos, InfoRow(rsi))]

\* insert_reverse_swap that leaves out the INSERT INTO reverse_swaps_info
insert_reverse_swap_without_info(swaps, infos, rsi, fault) ==
    LET failed(e) == [ok |-> FALSE, error |-> e, swaps |-> swaps, infos |-> infos]
        swaps1 == Append(swaps, SwapRow(rsi))
    IN  IF fault = "connection" THEN failed("connection")
        ELSE IF fault = "insert_swap" THEN failed("insert_swap")
        ELSE IF PrimaryKeyViolation(swaps, rsi.id) THEN failed("UNIQUE constraint failed")
        ELSE IF fault = "commit" THEN failed("commit")
        ELSE [ok |-> TRUE, error |-> "", swaps |-> swaps1, infos |-> infos]

\* insert_reverse_swap: both INSERTs in one transaction; an error at any
\* point drops the transaction, which rolls it back.  error is the error
\* returned: that of the database fault, or the violated key
insert_reverse_swap(swaps, infos, rsi, fault) ==
    LET failed(e) == [ok |-> FALSE, error |-> e, swaps |-> swaps, infos |-> infos]
        swaps1 == Append(swaps, SwapRow(rsi))
        infos1 == Append(infos, InfoRow(rsi))
    IN  IF fault = "connection" THEN failed("connection")
        ELSE IF fault = "insert_swap" THEN failed("insert_swap")
        ELSE IF PrimaryKeyViolation(swaps, rsi.id) THEN failed("UNIQUE constraint failed")
        ELSE IF fault = "insert_info" THEN failed("insert_info")
        ELSE IF PrimaryKeyViolation(infos, rsi.id) THEN failed("UNIQUE constraint failed")
        ELSE IF fault = "commit" THEN failed("commit")
        ELSE [ok |-> TRUE, error |-> "", swaps |-> swaps1, infos |-> infos1]

\* update_reverse_swap_boltz_status: UPDATE ... where id=:id; the number of
\* rows it changed is not looked at
update_reverse_swap_boltz_status(swaps, id, boltz_status, fault) ==
    IF fault
    THEN [ok |-> FALSE, error |-> "connection", swaps |-> swaps]
    ELSE [ok |-> TRUE, error |-> "",
          swaps |-> [k \in 1 .. Len(swaps) |->
                        IF swaps[k].id = id
                        THEN [swaps[k] EXCEPT !.boltz_api_status = boltz_status]
                        ELSE swaps[k]]]

\* sql_row_to_reverse_swap: one row of the join to a record; info is the
\* matching reverse_swaps_info row, or <<>> when the join filled in NULLs,
\* and row.get of a NULL column fails
sql_row_to_reverse_swap(s, info) ==
    IF info = <<>>
    THEN [ok |-> FALSE]
    ELSE [ok |-> TRUE,
          rs |-> [id |-> s.id, created_at |-> s.created_at,
                  local_preimage |-> s.local_preimage,
                  local_private_key |-> s.local_private_key,
                  destination_address |-> s.destination_address,
                  boltz_api_status |-> s.boltz_api_status,
                  hodl_bolt11 |-> s.hodl_bolt11, redeem_script |-> s.redeem_script,
                  cache |-> [lockup_address |-> info[1].lockup_address,
                             onchain_amount_sat |-> info[1].onchain_amount_sat]]]

RECURSIVE JoinInfo(_, _, _)
\* the joined rows of one reverse_swaps row from position k of reverse_swaps_info
JoinInfo(s, infos, k) ==
    IF k > Len(infos) THEN <<>>
    ELSE IF infos[k].id = s.id
         THEN <<sql_row_to_reverse_swap(s, <<infos[k]>>)>> \o JoinInfo(s, infos, k + 1)
         ELSE JoinInfo(s, infos, k + 1)

RECURSIVE select_reverse_swap_query(_, _, _)
\* reverse_swaps LEFT JOIN reverse_swaps_info ON id, from row k on
select_reverse_swap_query(swaps, infos, k) ==
    IF k > Len(swaps) THEN <<>>
    ELSE LET matches == JoinInfo(swaps[k], infos, 1)
         IN  (IF matches = <<>>
              THEN <<sql_row_to_reverse_swap(swaps[k], <<>>)>>
              ELSE matches)
             \o select_reverse_swap_query(swaps, infos, k + 1)

\* list_reverse_swaps: connection error, a panic of unwrap() on a row that
\* does not decode, or the records
list_reverse_swaps(swaps, infos, fault) ==
    LET rows == select_reverse_swap_query(swaps, infos, 1)
    IN  IF fault THEN [kind |-> "Err", list |-> <<>>]
        ELSE IF \E k \in 1 .. Len(rows) : ~rows[k].ok THEN [kind |-> "Panic", list |-> <<>>]
        ELSE [kind |-> "Ok", list |-> [k \in 1 .. Len(rows) |-> rows[k].rs]]

\* non_monitored_states without Expired
non_monitored_states_without_expired == {"ClaimTxSeen"}

\* statuses from which a swap cannot transition
non_monitored_states == {"Expired", "ClaimTxSeen"}

RECURSIVE FilterNotIn(_, _)
\* .iter().filter(|rs| !states.contains(&rs.status())): keeps the order
FilterNotIn(list, states) ==
    IF list = <<>> THEN <<>>
    ELSE (IF status(Head(list)) \notin states THEN <<Head(list)>> ELSE <<>>)
         \o FilterNotIn(Tail(list), states)

\* get_monitored_reverse_swaps without the filter
get_monitored_reverse_swaps_unfiltered(swaps, infos, fault) ==
    list_reverse_swaps(swaps, infos, fault)

\* get_monitored_reverse_swaps: the records whose status is not final
get_monitored_reverse_swaps(swaps, infos, fault) ==
    LET all == list_reverse_swaps(swaps, infos, fault)
    IN  IF all.kind # "Ok" THEN all
        ELSE [kind |-> "Ok", list |-> FilterNotIn(all.list, non_monitored_states)]

\* BTCSendSwap::list_monitored
list_monitored(swaps, infos, fault) == get_monitored_reverse_swaps(swaps, infos, fault)

\* ------------------------------------------------------------------------
\* Fixed-width arithmetic of create_claim_tx
\* ------------------------------------------------------------------------
\* a u32 as two 16-bit limbs
Limb == 65536

ToU32(n) == [hi |-> n \div Limb, lo |-> n % Limb]

\* wrapping u32 addition on limbs, with the carry out of bit 31
AddU32(x, y) ==
    LET lo == x.lo + y.lo
        hi == x.hi + y.hi + (lo \div Limb)
    IN  [hi |-> hi % Limb, lo |-> lo % Limb, carry |-> hi >= Limb]

\* the product of two 16-bit numbers as limbs, through 8-bit halves of y so
\* that no intermediate value leaves 31 bits
Mul16(x, y) ==
    LET p1 == x * (y \div 256)
        p0 == x * (y % 256)
        t  == (p1 % 256) * 256 + p0
    IN  [hi |-> (p1 \div 256) + (t \div Limb), lo |-> t % Limb]

\* u32 product of two limb values: the product modulo 2^32, and carry when
\* the true product does not fit 32 bits
MulU32(x, y) ==
    LET ll  == Mul16(x.lo, y.lo)
        hl  == Mul16(x.hi, y.lo)
        lh  == Mul16(x.lo, y.hi)
        mid == ll.hi + hl.lo + lh.lo
    IN  [hi |-> mid % Limb, lo |-> ll.lo,
         carry |-> (x.hi > 0 /\ y.hi > 0) \/ hl.hi > 0 \/ lh.hi > 0 \/ mid >= Limb]

\* ------------------------------------------------------------------------
\* Claim transaction builder (reverseswap.rs, create_claim_tx)
\* ------------------------------------------------------------------------
WITNESS_SCALE_FACTOR == 4

\* 1 + 1 + 8 + 73 + 1 + 32 + 1 + 100
refund_witness_input_size == 217

\* Script::from_hex on the redeem scripts of the model
ScriptFromHex(s) ==
    IF s \in {"htlc_A", "htlc_B"} THEN [ok |-> TRUE, script |-> s] ELSE [ok |-> FALSE, script |-> s]

\* Address::script_pubkey(): the output script of the address, which holds
\* the kind of the script and what it commits to, and not the network
script_pubkey(addr) == [kind |-> addr.address_type, commits_to |-> addr.script]

\* length in bytes of Address::script_pubkey()
ScriptPubkeyLen(addr) ==
    CASE addr.address_type = "P2wpkh" -> 22
      [] addr.address_type = "P2wsh"  -> 34
      [] addr.address_type = "P2sh"   -> 23
      [] OTHER                        -> 25

\* Transaction::strippedsize() of a transaction with n inputs that have an
\* empty script_sig and one output paying addr
strippedsize(n, addr) == 4 + 1 + n * (32 + 4 + 1 + 4) + 1 + (8 + 1 + ScriptPubkeyLen(addr)) + 4

RECURSIVE SumValues(_)
\* fold(0, |accum, item| accum + item.value as u64)
SumValues(utxos) ==
    IF utxos = <<>> THEN 0 ELSE Head(utxos).value + SumValues(Tail(utxos))

\* segwit_signature_hash that does not commit to the value of the output spent
segwit_signature_hash_without_value(tx, index, script, value) ==
    [input_index |-> index, script_code |-> script, value |-> 0,
     prevouts |-> [k \in 1 .. Len(tx.input) |-> tx.input[k].previous_output],
     outputs |-> tx.output, sighash_type |-> "All"]

\* SighashCache::segwit_signature_hash(index, script, value, All) of tx
segwit_signature_hash(tx, index, script, value) ==
    [input_index |-> index, script_code |-> script, value |-> value,
     prevouts |-> [k \in 1 .. Len(tx.input) |-> tx.input[k].previous_output],
     outputs |-> tx.output, sighash_type |-> "All"]

\* sign_ecdsa with the swap's key, DER-serialised, sighash byte appended
sign_ecdsa(msg, secret_key) == [der |-> <<"sig", secret_key, msg>>, sighash_byte |-> "All"]

\* answers of chain_service.address_transactions + get_utxos: an error, or
\* the confirmed and unconfirmed outputs at the address
UtxoAnswers ==
    { [ok |-> FALSE, confirmed |-> <<>>, unconfirmed |-> <<>>],
      [ok |-> TRUE, confirmed |-> <<>>, unconfirmed |-> <<[out |-> "u1", value |-> 99500]>>],
      [ok |-> TRUE, confirmed |-> <<[out |-> "c1", value |-> 99500]>>, unconfirmed |-> <<>>],
      [ok |-> TRUE, confirmed |-> <<[out |-> "c1", value |-> 1000]>>, unconfirmed |-> <<>>],
      [ok |-> TRUE, confirmed |-> <<[out |-> "c1", value |-> 99500], [out |-> "c2", value |-> 500]>>,
                    unconfirmed |-> <<[out |-> "u1", value |-> 700]>>] }

\* answers of chain_service.recommended_fees: an error, or half_hour_fee
FeeAnswers ==
    { [ok |-> FALSE, half_hour_fee |-> 0],
      [ok |-> TRUE, half_hour_fee |-> 1],
      [ok |-> TRUE, half_hour_fee |-> 10],
      [ok |-> TRUE, half_hour_fee |-> 8388608] }

\* create_claim_tx that counts the unconfirmed outputs into the amount
create_claim_tx_counts_unconfirmed(rs, utxos, recommended_fees, checks) ==
    LET lockup_addr_str  == AddressFromStr(rs.cache.lockup_address)
        destination_addr == AddressFromStr(rs.destination_address)
        redeem_script    == ScriptFromHex(rs.redeem_script)
        none     == <<>>
        lookup   == <<"address_transactions">>
        both     == <<"address_transactions", "recommended_fees">>
        Err(e, calls)   == [kind |-> "Err", error |-> e, tx |-> <<>>, fees |-> 0, calls |-> calls]
        Panic(e, calls) == [kind |-> "Panic", error |-> e, tx |-> <<>>, fees |-> 0, calls |-> calls]
        confirmed_amount == SumValues(utxos.confirmed) + SumValues(utxos.unconfirmed)
        n     == Len(utxos.confirmed)
        txins == [k \in 1 .. n |->
                    [previous_output |-> utxos.confirmed[k].out, script_sig |-> <<>>,
                     sequence |-> 0, witness |-> <<>>]]
        sat_per_vbyte == recommended_fees.half_hour_fee
        stripped_w == MulU32(ToU32(strippedsize(n, destination_addr)), ToU32(WITNESS_SCALE_FACTOR))
        witness_w  == MulU32(ToU32(refund_witness_input_size), ToU32(n))
        tx_weight  == AddU32(stripped_w, witness_w)
        product    == MulU32(tx_weight, ToU32(sat_per_vbyte))
        \* (hi * 2^16 + lo) / 4, kept below 2^31
        fees       == product.hi * (Limb \div WITNESS_SCALE_FACTOR)
                      + product.lo \div WITNESS_SCALE_FACTOR
        value      == confirmed_amount - fees
        tx == [version |-> 2, lock_time |-> 0, input |-> txins,
               output |-> <<[value |-> value, script_pubkey |-> script_pubkey(destination_addr)]>>]
        signed_inputs ==
            [k \in 1 .. n |->
                [txins[k] EXCEPT !.witness =
                    << sign_ecdsa(segwit_signature_hash(tx, k, redeem_script.script,
                                                        utxos.confirmed[k].value),
                                  rs.local_private_key),
                       rs.local_preimage,
                       redeem_script.script >>]]
    IN  IF ~lockup_addr_str.ok THEN Err("lockup address", none)
        ELSE IF ~destination_addr.ok THEN Err("destination address", none)
        ELSE IF ~redeem_script.ok THEN Err("redeem script", none)
        ELSE IF lockup_addr_str.address_type = "None"
             THEN Err("Could not determine lock address type", none)
        ELSE IF lockup_addr_str.address_type # "P2wsh"
             THEN Err("Unexpected lock address type", none)
        ELSE IF ~utxos.ok THEN Err("address_transactions", lookup)
        ELSE IF ~recommended_fees.ok THEN Err("recommended_fees", both)
        ELSE IF checks /\ (stripped_w.carry \/ witness_w.carry \/ tx_weight.carry \/ product.carry)
             THEN Panic("attempt to multiply with overflow", both)
        ELSE IF checks /\ value < 0 THEN Panic("attempt to subtract with overflow", both)
        ELSE [kind |-> "Ok", error |-> "", fees |-> fees, calls |-> both,
              tx |-> [tx EXCEPT !.input = signed_inputs]]

\* create_claim_tx that also spends the unconfirmed outputs at the address
create_claim_tx_spends_unconfirmed(rs, utxos, recommended_fees, checks) ==
    LET lockup_addr_str  == AddressFromStr(rs.cache.lockup_address)
        destination_addr == AddressFromStr(rs.destination_address)
        redeem_script    == ScriptFromHex(rs.redeem_script)
        none     == <<>>
        lookup   == <<"address_transactions">>
        both     == <<"address_transactions", "recommended_fees">>
        Err(e, calls)   == [kind |-> "Err", error |-> e, tx |-> <<>>, fees |-> 0, calls |-> calls]
        Panic(e, calls) == [kind |-> "Panic", error |-> e, tx |-> <<>>, fees |-> 0, calls |-> calls]
        confirmed_amount == SumValues(utxos.confirmed)
        n     == Len(utxos.confirmed)
        txins == [k \in 1 .. n |->
                    [previous_output |-> utxos.confirmed[k].out, script_sig |-> <<>>,
                     sequence |-> 0, witness |-> <<>>]]
                 \o [k \in 1 .. Len(utxos.unconfirmed) |->
                    [previous_output |-> utxos.unconfirmed[k].out, script_sig |-> <<>>,
                     sequence |-> 0, witness |-> <<>>]]
        sat_per_vbyte == recommended_fees.half_hour_fee
        stripped_w == MulU32(ToU32(strippedsize(n, destination_addr)), ToU32(WITNESS_SCALE_FACTOR))
        witness_w  == MulU32(ToU32(refund_witness_input_size), ToU32(n))
        tx_weight  == AddU32(stripped_w, witness_w)
        product    == MulU32(tx_weight, ToU32(sat_per_vbyte))
        \* (hi * 2^16 + lo) / 4, kept below 2^31
        fees       == product.hi * (Limb \div WITNESS_SCALE_FACTOR)
                      + product.lo \div WITNESS_SCALE_FACTOR
        value      == confirmed_amount - fees
        tx == [version |-> 2, lock_time |-> 0, input |-> txins,
               output |-> <<[value |-> value, script_pubkey |-> script_pubkey(destination_addr)]>>]
        signed_inputs ==
            [k \in 1 .. n |->
                [txins[k] EXCEPT !.witness =
                    << sign_ecdsa(segwit_signature_hash(tx, k, redeem_script.script,
                                                        utxos.confirmed[k].value),
                                  rs.local_private_key),
                       rs.local_preimage,
                       redeem_script.script >>]]
    IN  IF ~lockup_addr_str.ok THEN Err("lockup address", none)
        ELSE IF ~destination_addr.ok THEN Err("destination address", none)
        ELSE IF ~redeem_script.ok THEN Err("redeem script", none)
        ELSE IF lockup_addr_str.address_type = "None"
             THEN Err("Could not determine lock address type", none)
        ELSE IF lockup_addr_str.address_type # "P2wsh"
             THEN Err("Unexpected lock address type", none)
        ELSE IF ~utxos.ok THEN Err("address_transactions", lookup)
        ELSE IF ~recommended_fees.ok THEN Err("recommended_fees", both)
        ELSE IF checks /\ (stripped_w.carry \/ witness_w.carry \/ tx_weight.carry \/ product.carry)
             THEN Panic("attempt to multiply with overflow", both)
        ELSE IF checks /\ value < 0 THEN Panic("attempt to subtract with overflow", both)
        ELSE [kind |-> "Ok", error |-> "", fees |-> fees, calls |-> both,
              tx |-> [tx EXCEPT !.input = signed_inputs \o SubSeq(txins, n + 1, Len(txins))]]

\* create_claim_tx without the match on the type of the lockup address
create_claim_tx_any_lock_type(rs, utxos, recommended_fees, checks) ==
    LET lockup_addr_str  == AddressFromStr(rs.cache.lockup_address)
        destination_addr == AddressFromStr(rs.destination_address)
        redeem_script    == ScriptFromHex(rs.redeem_script)
        none     == <<>>
        lookup   == <<"address_transactions">>
        both     == <<"address_transactions", "recommended_fees">>
        Err(e, calls)   == [kind |-> "Err", error |-> e, tx |-> <<>>, fees |-> 0, calls |-> calls]
        Panic(e, calls) == [kind |-> "Panic", error |-> e, tx |-> <<>>, fees |-> 0, calls |-> calls]
        confirmed_amount == SumValues(utxos.confirmed)
        n     == Len(utxos.confirmed)
        txins == [k \in 1 .. n |->
                    [previous_output |-> utxos.confirmed[k].out, script_sig |-> <<>>,
                     sequence |-> 0, witness |-> <<>>]]
        sat_per_vbyte == recommended_fees.half_hour_fee
        stripped_w == MulU32(ToU32(strippedsize(n, destination_addr)), ToU32(WITNESS_SCALE_FACTOR))
        witness_w  == MulU32(ToU32(refund_witness_input_size), ToU32(n))
        tx_weight  == AddU32(stripped_w, witness_w)
        product    == MulU32(tx_weight, ToU32(sat_per_vbyte))
        \* (hi * 2^16 + lo) / 4, kept below 2^31
        fees       == product.hi * (Limb \div WITNESS_SCALE_FACTOR)
                      + product.lo \div WITNESS_SCALE_FACTOR
        value      == confirmed_amount - fees
        tx == [version |-> 2, lock_time |-> 0, input |-> txins,
               output |-> <<[value |-> value, script_pubkey |-> script_pubkey(destination_addr)]>>]
        signed_inputs ==
            [k \in 1 .. n |->
                [txins[k] EXCEPT !.witness =
                    << sign_ecdsa(segwit_signature_hash(tx, k, redeem_script.script,
                                                        utxos.confirmed[k].value),
                                  rs.local_private_key),
                       rs.local_preimage,
                       redeem_script.script >>]]
    IN  IF ~lockup_addr_str.ok THEN Err("lockup address", none)
        ELSE IF ~destination_addr.ok THEN Err("destination address", none)
        ELSE IF ~redeem_script.ok THEN Err("redeem script", none)
        ELSE IF ~utxos.ok THEN Err("address_transactions", lookup)
        ELSE IF ~recommended_fees.ok THEN Err("recommended_fees", both)
        ELSE IF checks /\ (stripped_w.carry \/ witness_w.carry \/ tx_weight.carry \/ product.carry)
             THEN Panic("attempt to multiply with overflow", both)
        ELSE IF checks /\ value < 0 THEN Panic("attempt to subtract with overflow", both)
        ELSE [kind |-> "Ok", error |-> "", fees |-> fees, calls |-> both,
              tx |-> [tx EXCEPT !.input = signed_inputs]]

\* create_claim_tx.  kind is "Ok" with the signed transaction, "Err" with the
\* error, or "Panic" when an arithmetic overflow is caught (checks = TRUE);
\* calls are the calls made to the chain service.
\* An output value below zero stands for the u64 it wraps to, 2^64 + value.
create_claim_tx(rs, utxos, recommended_fees, checks) ==
    LET lockup_addr_str  == AddressFromStr(rs.cache.lockup_address)
        destination_addr == AddressFromStr(rs.destination_address)
        redeem_script    == ScriptFromHex(rs.redeem_script)
        none     == <<>>
        lookup   == <<"address_transactions">>
        both     == <<"address_transactions", "recommended_fees">>
        Err(e, calls)   == [kind |-> "Err", error |-> e, tx |-> <<>>, fees |-> 0, calls |-> calls]
        Panic(e, calls) == [kind |-> "Panic", error |-> e, tx |-> <<>>, fees |-> 0, calls |-> calls]
        confirmed_amount == SumValues(utxos.confirmed)
        n     == Len(utxos.confirmed)
        txins == [k \in 1 .. n |->
                    [previous_output |-> utxos.confirmed[k].out, script_sig |-> <<>>,
                     sequence |-> 0, witness |-> <<>>]]
        sat_per_vbyte == recommended_fees.half_hour_fee
        stripped_w == MulU32(ToU32(strippedsize(n, destination_addr)), ToU32(WITNESS_SCALE_FACTOR))
        witness_w  == MulU32(ToU32(refund_witness_input_size), ToU32(n))
        tx_weight  == AddU32(stripped_w, witness_w)
        product    == MulU32(tx_weight, ToU32(sat_per_vbyte))
        \* (hi * 2^16 + lo) / 4, kept below 2^31
        fees       == product.hi * (Limb \div WITNESS_SCALE_FACTOR)
                      + product.lo \div WITNESS_SCALE_FACTOR
        value      == confirmed_amount - fees
        tx == [version |-> 2, lock_time |-> 0, input |-> txins,
               output |-> <<[value |-> value, script_pubkey |-> script_pubkey(destination_addr)]>>]
        signed_inputs ==
            [k \in 1 .. n |->
                [txins[k] EXCEPT !.witness =
                    << sign_ecdsa(segwit_signature_hash(tx, k, redeem_script.script,
                                                        utxos.confirmed[k].value),
                                  rs.local_private_key),
                       rs.local_preimage,
                       redeem_script.script >>]]
    IN  IF ~lockup_addr_str.ok THEN Err("lockup address", none)
        ELSE IF ~destination_addr.ok THEN Err("destination address", none)
        ELSE IF ~redeem_script.ok THEN Err("redeem script", none)
        ELSE IF lockup_addr_str.address_type = "None"
             THEN Err("Could not determine lock address type", none)
        ELSE IF lockup_addr_str.address_type # "P2wsh"
             THEN Err("Unexpected lock address type", none)
        ELSE IF ~utxos.ok THEN Err("address_transactions", lookup)
        ELSE IF ~recommended_fees.ok THEN Err("recommended_fees", both)
        ELSE IF checks /\ (stripped_w.carry \/ witness_w.carry \/ tx_weight.carry \/ product.carry)
             THEN Panic("attempt to multiply with overflow", both)
        ELSE IF checks /\ value < 0 THEN Panic("attempt to subtract with overflow", both)
        ELSE [kind |-> "Ok", error |-> "", fees |-> fees, calls |-> both,
              tx |-> [tx EXCEPT !.input = signed_inputs]]

\* ------------------------------------------------------------------------
\* create_reverse_swap (reverseswap.rs)
\* ------------------------------------------------------------------------
\* validate_create_reverse_swap that accepts every string
validate_create_reverse_swap_accept_all(onchain_destination_address) == TRUE

\* validate_create_reverse_swap: Address::from_str must succeed
validate_create_reverse_swap(onchain_destination_address) ==
    AddressFromStr(onchain_destination_address).ok

\* answers of reverse_swapper_api.create_reverse_swap: a transport error, a
\* business error of the provider, or a created swap
CreateSuccess(id, amt, la) ==
    [kind |-> "BoltzApiSuccess", id |-> id, invoice |-> "lnbc1", redeem_script |-> "htlc_A",
     onchain_amount |-> amt, lockup_address |-> la]

CreateFailures ==
    { [kind |-> "TransportError"], [kind |-> "BoltzApiError", error |-> "amount out of limits"] }

\* the lockup address the provider gives the swap with this id: the P2WSH
\* address of the redeem script, a P2WSH address of another script, or an
\* address that is not P2WSH
LockupOf(id) ==
    IF id % 3 = 1 THEN "bc1q_lock_A" ELSE IF id % 3 = 2 THEN "bc1q_lock_B" ELSE "3_lock"

\* the ids the provider may give a new swap: ids name the swaps in the order
\* of their creation, so response.id is the next unused id or, a duplicate,
\* the id of a swap of the store
ProviderIds(swaps) == { id \in SwapIds : id <= Len(swaps) + 1 }

\* every answer of the provider when the store holds swaps
CreateAnswers(swaps) ==
    CreateFailures \cup
    { CreateSuccess(id, amt, LockupOf(id)) : id \in ProviderIds(swaps), amt \in LockedAmounts }

\* no create_reverse_swap call happened in this step
NoCreate == [called |-> FALSE]

\* CreateRequest that sends the preimage itself in place of its hash
CreateRequest_with_preimage(amount_sat, keys, pair_hash, routing_node) ==
    [amount_sat |-> amount_sat, preimage_hash_hex |-> keys.preimage,
     pubkey_hex |-> public_key(keys), pair_hash |-> pair_hash, routing_node |-> routing_node]

\* the request create_reverse_swap sends to the provider
CreateRequest(amount_sat, keys, pair_hash, routing_node) ==
    [amount_sat |-> amount_sat, preimage_hash_hex |-> preimage_hash_bytes(keys),
     pubkey_hex |-> public_key(keys), pair_hash |-> pair_hash, routing_node |-> routing_node]

\* NewReverseSwapInfo with the destination address as cached lockup address
NewReverseSwapInfo_dest_as_lockup(now, onchain_destination_address, keys, response) ==
    [created_at |-> now,
     destination_address |-> onchain_destination_address,
     hodl_bolt11 |-> response.invoice,
     local_preimage |-> keys.preimage,
     local_private_key |-> keys.priv_key,
     id |-> response.id,
     boltz_api_status |-> SwapCreated,
     redeem_script |-> response.redeem_script,
     cache |-> [lockup_address |-> onchain_destination_address,
                onchain_amount_sat |-> response.onchain_amount]]

\* the ReverseSwapInfo assembled from a successful provider response
NewReverseSwapInfo(now, onchain_destination_address, keys, response) ==
    [created_at |-> now,
     destination_address |-> onchain_destination_address,
     hodl_bolt11 |-> response.invoice,
     local_preimage |-> keys.preimage,
     local_private_key |-> keys.priv_key,
     id |-> response.id,
     boltz_api_status |-> SwapCreated,
     redeem_script |-> response.redeem_script,
     cache |-> [lockup_address |-> response.lockup_address,
                onchain_amount_sat |-> response.onchain_amount]]

\* create_reverse_swap that replaces the provider's business error by a
\* generic one
create_reverse_swap_generic_error(swaps, infos, amount_sat, dest, seed, now, answer, fault) ==
    LET keys    == create_swap_keys(seed)
        request == CreateRequest(amount_sat, keys, "pair_hash", "routing_node")
        rsi     == NewReverseSwapInfo(now, dest, keys, answer)
        ins     == insert_reverse_swap(swaps, infos, rsi, fault)
        Returns(requests, result, error, info, swaps1, infos1) ==
            [called |-> TRUE, destination_address |-> dest, seed |-> seed,
             requests |-> requests, answer |-> answer,
             result |-> result, error |-> error, info |-> info,
             swaps |-> swaps1, infos |-> infos1]
    IN  IF ~validate_create_reverse_swap(dest)
        THEN Returns(<<>>, "Err", "Invalid destination address", <<>>, swaps, infos)
        ELSE IF answer.kind = "TransportError"
        THEN Returns(<<request>>, "Err", "transport", <<>>, swaps, infos)
        ELSE IF answer.kind = "BoltzApiError"
        THEN Returns(<<request>>, "Err", "Boltz error", <<>>, swaps, infos)
        ELSE IF ins.ok
        THEN Returns(<<request>>, "Ok", "", <<rsi>>, ins.swaps, ins.infos)
        ELSE Returns(<<request>>, "Err", ins.error, <<>>, ins.swaps, ins.infos)

\* create_reverse_swap on the given tables: validation, keys, provider call,
\* insert.  requests are the calls made to the provider, result and error
\* what the caller gets back (info holds the record when result is Ok),
\* swaps and infos the tables afterwards
create_reverse_swap(swaps, infos, amount_sat, dest, seed, now, answer, fault) ==
    LET keys    == create_swap_keys(seed)
        request == CreateRequest(amount_sat, keys, "pair_hash", "routing_node")
        rsi     == NewReverseSwapInfo(now, dest, keys, answer)
        ins     == insert_reverse_swap(swaps, infos, rsi, fault)
        Returns(requests, result, error, info, swaps1, infos1) ==
            [called |-> TRUE, destination_address |-> dest, seed |-> seed,
             requests |-> requests, answer |-> answer,
             result |-> result, error |-> error, info |-> info,
             swaps |-> swaps1, infos |-> infos1]
    IN  IF ~validate_create_reverse_swap(dest)
        THEN Returns(<<>>, "Err", "Invalid destination address", <<>>, swaps, infos)
        ELSE IF answer.kind = "TransportError"
        THEN Returns(<<request>>, "Err", "transport", <<>>, swaps, infos)
        ELSE IF answer.kind = "BoltzApiError"
        THEN Returns(<<request>>, "Err", answer.error, <<>>, swaps, infos)
        ELSE IF ins.ok
        THEN Returns(<<request>>, "Ok", "", <<rsi>>, ins.swaps, ins.infos)
        ELSE Returns(<<request>>, "Err", ins.error, <<>>, ins.swaps, ins.infos)

\* what a caller and the provider see of a create_reverse_swap call: the
\* destination passed, the requests the provider got and its answer (none
\* when it got no request), and what the call returned
Observed(call) ==
    [called |-> TRUE, destination_address |-> call.destination_address,
     requests |-> call.requests,
     answer |-> IF call.requests = <<>> THEN [kind |-> "none"] ELSE call.answer,
     result |-> call.result, error |-> call.error, info |-> call.info]

\* a create_reverse_swap call with inputs and faults from the given sets and
\* any answer of the provider; observed says whether last_create records it
CreateFrom(dests, seeds, faults, observed) ==
    \E amount_sat \in RequestedAmounts, dest \in dests, seed \in seeds,
       now \in Clock, answer \in CreateAnswers(reverse_swaps), fault \in faults :
        LET call == create_reverse_swap(reverse_swaps, reverse_swaps_info,
                                        amount_sat, dest, seed, now, answer, fault)
        IN  /\ reverse_swaps' = call.swaps
            /\ reverse_swaps_info' = call.infos
            /\ last_create' = IF observed THEN Observed(call) ELSE NoCreate
            /\ UNCHANGED <<overflow_checks, last_claim_tx, last_store_op, last_sign_url, task, trace>>

\* create_reverse_swap calls of the monitoring specification
Create ==
    CreateFrom({"not an address", "bc1q_dest"}, {1}, {"none", "commit"}, FALSE)

\* create_reverse_swap calls of the creation specification: every input,
\* every answer and every fault, each call recorded in last_create
CreateObserved ==
    CreateFrom(DestinationInputs, Seeds, InsertFaults, TRUE)

\* ------------------------------------------------------------------------
\* create_claim_tx calls observed on their own
\* ------------------------------------------------------------------------
\* largest number of confirmed outputs at a lockup address
MaxInputs == 3

\* no create_claim_tx call happened in this step
NoClaimTx == [called |-> FALSE]

\* lockup addresses and redeem scripts a provider may answer a create with;
\* neither is validated before the record is stored
LockupInputs ==
    {"bc1q_lock_A", "bc1q_lock_B", "3_lock", "bc1z_lock", "bc1q_dest", "not an address"}
RedeemScriptInputs == {"htlc_A", "not hex"}

\* the records the claim loop can hand to create_claim_tx: stored by
\* create_reverse_swap with a destination that passed validation and whatever
\* the provider answered, and polled as LockTxConfirmed since
BuilderRecords ==
    { [NewReverseSwapInfo(now, dest, create_swap_keys(seed),
                          [CreateSuccess(1, amt, la) EXCEPT !.redeem_script = script])
          EXCEPT !.boltz_api_status = "LockTxConfirmed"] :
        now \in Clock, dest \in { d \in DestinationInputs : validate_create_reverse_swap(d) },
        seed \in {1}, amt \in LockedAmounts, la \in LockupInputs, script \in RedeemScriptInputs }

\* values of the outputs at a lockup address
UtxoValues == {136, 1000, 99500}

\* n confirmed outputs of the same value
ConfirmedOutputs(n, value) == [k \in 1 .. n |-> [out |-> "c" \o ToString(k), value |-> value]]

\* answers of the UTXO lookup for the builder: those of the monitoring cycle
\* and every number of confirmed outputs up to MaxInputs
BuilderUtxoAnswers ==
    UtxoAnswers \cup
    { [ok |-> TRUE, confirmed |-> ConfirmedOutputs(n, value), unconfirmed |-> <<>>] :
        n \in 0 .. MaxInputs, value \in UtxoValues }

\* answers of recommended_fees for the builder
BuilderFeeAnswers ==
    FeeAnswers \cup { [ok |-> TRUE, half_hour_fee |-> f] : f \in {0, 2, 3, 4, 200} }

\* the inputs of a create_claim_tx call that is about to be made: a stored
\* record and the answers the chain service will give
ClaimTxInputs ==
    { [called |-> FALSE, rs |-> rs, utxos |-> utxos, recommended_fees |-> recommended_fees] :
        rs \in BuilderRecords, utxos \in BuilderUtxoAnswers,
        recommended_fees \in BuilderFeeAnswers }

\* the create_claim_tx call on the inputs held in last_claim_tx, which then
\* records the call and its result
ClaimTxObserved ==
    /\ last_claim_tx \in ClaimTxInputs
    /\ last_claim_tx' =
          [called |-> TRUE, rs |-> last_claim_tx.rs, utxos |-> last_claim_tx.utxos,
           recommended_fees |-> last_claim_tx.recommended_fees,
           result |-> create_claim_tx(last_claim_tx.rs, last_claim_tx.utxos,
                                      last_claim_tx.recommended_fees, overflow_checks)]
    /\ UNCHANGED <<reverse_swaps, reverse_swaps_info, overflow_checks, last_create,
                   last_store_op, last_sign_url, task, trace>>

\* a second create_claim_tx call on the record of the observed one, for which
\* the chain service answers with the same confirmed outputs and the same
\* fee rate; its result is recorded next to the first
ClaimTxRepeated ==
    /\ last_claim_tx.called
    /\ "again" \notin DOMAIN last_claim_tx
    /\ \E utxos \in BuilderUtxoAnswers, recommended_fees \in BuilderFeeAnswers :
          /\ utxos.ok = last_claim_tx.utxos.ok
          /\ utxos.confirmed = last_claim_tx.utxos.confirmed
          /\ recommended_fees = last_claim_tx.recommended_fees
          /\ last_claim_tx' =
                [called |-> TRUE, rs |-> last_claim_tx.rs, utxos |-> last_claim_tx.utxos,
                 recommended_fees |-> last_claim_tx.recommended_fees,
                 result |-> last_claim_tx.result,
                 again |-> create_claim_tx(last_claim_tx.rs, utxos, recommended_fees,
                                           overflow_checks)]
    /\ UNCHANGED <<reverse_swaps, reverse_swaps_info, overflow_checks, last_create,
                   last_store_op, last_sign_url, task, trace>>

\* ------------------------------------------------------------------------
\* Calls of the swap store observed on their own
\* ------------------------------------------------------------------------
\* no call of the swap store happened in this step
NoStoreOp == [called |-> FALSE, op |-> "none"]

\* the record of the swap with this id as create_reverse_swap stored it, with
\* the status the polls have written since
StoredRecord(id, dest, la, boltz_status) ==
    [NewReverseSwapInfo(1700000000, dest, create_swap_keys(1), CreateSuccess(id, 99500, la))
        EXCEPT !.boltz_api_status = boltz_status]

\* the contents of the store: up to MaxSwaps swaps, ids in the order of
\* creation, each in any status
StoreContents ==
    UNION { { [k \in 1 .. n |-> StoredRecord(k, "bc1q_dest", LockupOf(k), f[k])] :
                f \in [1 .. n -> BoltzStatuses] } : n \in 0 .. MaxSwaps }

\* the ids a call of the store is made with: those of the swaps the store
\* can hold and one more
StoreOpIds == 1 .. MaxSwaps + 1

\* insert_reverse_swap calls about to be made
InsertInputs ==
    { [called |-> FALSE, op |-> "insert", rsi |-> StoredRecord(id, dest, la, SwapCreated),
       id |-> id, boltz_status |-> SwapCreated, fault |-> fault] :
        id \in StoreOpIds, dest \in {"bc1q_dest", "tb1q_dest"},
        la \in {"bc1q_lock_A", "bc1q_lock_B"}, fault \in InsertFaults }

\* update_reverse_swap_boltz_status calls about to be made
UpdateInputs ==
    { [called |-> FALSE, op |-> "update", rsi |-> <<>>,
       id |-> id, boltz_status |-> boltz_status, fault |-> fault] :
        id \in StoreOpIds, boltz_status \in BoltzStatuses, fault \in {"none", "connection"} }

\* the insert_reverse_swap call held in last_store_op, which then records the
\* call and what it returned
InsertObserved ==
    /\ last_store_op \in InsertInputs
    /\ LET ins == insert_reverse_swap(reverse_swaps, reverse_swaps_info,
                                      last_store_op.rsi, last_store_op.fault)
       IN  /\ reverse_swaps' = ins.swaps
           /\ reverse_swaps_info' = ins.infos
           /\ last_store_op' = [called |-> TRUE, op |-> "insert", rsi |-> last_store_op.rsi,
                                id |-> last_store_op.id,
                                boltz_status |-> last_store_op.boltz_status,
                                fault |-> last_store_op.fault,
                                ok |-> ins.ok, error |-> ins.error]
    /\ UNCHANGED <<overflow_checks, last_create, last_claim_tx, last_sign_url, task, trace>>

\* the update_reverse_swap_boltz_status call held in last_store_op, which
\* then records the call and what it returned
UpdateObserved ==
    /\ last_store_op \in UpdateInputs
    /\ LET upd == update_reverse_swap_boltz_status(reverse_swaps, last_store_op.id,
                                                   last_store_op.boltz_status,
                                                   last_store_op.fault = "connection")
       IN  /\ reverse_swaps' = upd.swaps
           /\ last_store_op' = [called |-> TRUE, op |-> "update", rsi |-> <<>>,
                                id |-> last_store_op.id,
                                boltz_status |-> last_store_op.boltz_status,
                                fault |-> last_store_op.fault,
                                ok |-> upd.ok, error |-> upd.error]
    /\ UNCHANGED <<reverse_swaps_info, overflow_checks, last_create, last_claim_tx, last_sign_url, task, trace>>

\* ------------------------------------------------------------------------
\* MoonPay URL signing (moonpay/moonpay_url_signer.rs, moonpay/moonpay_api.rs)
\* ------------------------------------------------------------------------
\* A string is a sequence of pieces: a piece is one of the characters the
\* form encoding treats specially, or a run of text it leaves alone.

\* longest parameter value tried
MaxValueLen == 2

\* the pieces of the parameter values tried
ValueChars == {"a", " ", "&", "=", "%", "+", "2", "6"}

\* the parameter values tried
Values == UNION { [1 .. n -> ValueChars] : n \in 0 .. MaxValueLen }

\* the percent-encoding of a piece that is neither unreserved nor a space
PercentCode(c) ==
    CASE c = "&" -> <<"%", "2", "6">>
      [] c = "=" -> <<"%", "3", "D">>
      [] c = "%" -> <<"%", "2", "5">>
      [] c = "+" -> <<"%", "2", "B">>
      [] c = "?" -> <<"%", "3", "F">>

\* serialize_piece without the escaping of &
serialize_piece_keeps_ampersand(c) ==
    IF c = " " THEN <<"+">>
    ELSE IF c \in {"=", "%", "+", "?"} THEN PercentCode(c)
    ELSE <<c>>

\* form_urlencoded::byte_serialize on one piece: a space becomes +,
\* unreserved text stays, everything else is percent-encoded
serialize_piece(c) ==
    IF c = " " THEN <<"+">>
    ELSE IF c \in {"&", "=", "%", "+", "?"} THEN PercentCode(c)
    ELSE <<c>>

\* form_urlencoded::byte_serialize: the pieces serialized one after another
RECURSIVE byte_serialize(_)
byte_serialize(str) ==
    IF str = <<>> THEN <<>>
    ELSE serialize_piece(Head(str)) \o byte_serialize(Tail(str))

\* the piece a percent code stands for, or none
PercentDecoded(h1, h2) ==
    CASE <<h1, h2>> = <<"2", "6">> -> <<"&">>
      [] <<h1, h2>> = <<"3", "D">> -> <<"=">>
      [] <<h1, h2>> = <<"2", "5">> -> <<"%">>
      [] <<h1, h2>> = <<"2", "B">> -> <<"+">>
      [] <<h1, h2>> = <<"3", "F">> -> <<"?">>
      [] OTHER -> <<>>

\* form_urlencoded decode: + becomes a space, a percent code its piece, a %
\* that starts no code stays
RECURSIVE form_decode(_)
form_decode(str) ==
    IF str = <<>> THEN <<>>
    ELSE IF Head(str) = "+" THEN <<" ">> \o form_decode(Tail(str))
    ELSE IF /\ Head(str) = "%"
            /\ Len(str) >= 3
            /\ PercentDecoded(str[2], str[3]) # <<>>
         THEN PercentDecoded(str[2], str[3]) \o form_decode(SubSeq(str, 4, Len(str)))
    ELSE <<Head(str)>> \o form_decode(Tail(str))

\* the position of the first sep in str, or 0
RECURSIVE IndexOf(_, _, _)
IndexOf(str, sep, from) ==
    IF from > Len(str) THEN 0
    ELSE IF str[from] = sep THEN from
    ELSE IndexOf(str, sep, from + 1)

\* str cut at every sep
RECURSIVE Split(_, _)
Split(str, sep) ==
    LET k == IndexOf(str, sep, 1)
    IN  IF k = 0 THEN <<str>>
        ELSE <<SubSeq(str, 1, k - 1)>> \o Split(SubSeq(str, k + 1, Len(str)), sep)

\* Url::query_pairs: the query cut at &, empty segments dropped, each segment
\* cut at its first = and both halves decoded
query_pairs(query) ==
    LET segments == SelectSeq(Split(query, "&"), LAMBDA seg : seg # <<>>)
        pair(seg) ==
            LET k == IndexOf(seg, "=", 1)
            IN  IF k = 0 THEN <<form_decode(seg), <<>>>>
                ELSE <<form_decode(SubSeq(seg, 1, k - 1)),
                       form_decode(SubSeq(seg, k + 1, Len(seg)))>>
    IN  [j \in 1 .. Len(segments) |-> pair(segments[j])]

\* Serializer::extend_pairs: name=value for each pair, joined by &
RECURSIVE extend_pairs(_)
extend_pairs(pairs) ==
    IF pairs = <<>> THEN <<>>
    ELSE byte_serialize(pairs[1][1]) \o <<"=">> \o byte_serialize(pairs[1][2])
         \o (IF Len(pairs) = 1 THEN <<>> ELSE <<"&">> \o extend_pairs(Tail(pairs)))

\* Url::parse on the base URLs of the model: an error, or the query the URL
\* has already
UrlParse(base_url) ==
    CASE base_url = "https://base.url"     -> [ok |-> TRUE, query |-> <<>>]
      [] base_url = "https://base.url?x=1" -> [ok |-> TRUE, query |-> <<"x", "=", "1">>]
      [] OTHER                             -> [ok |-> FALSE, query |-> <<>>]

\* base URLs a configuration may hold
BaseUrlInputs == {"https://base.url", "https://base.url?x=1", "not a url"}

\* Url::parse_with_params: the parsed base URL with the pairs appended to
\* its query
parse_with_params(base_url, pairs) ==
    LET url == UrlParse(base_url)
    IN  IF ~url.ok THEN url
        ELSE [ok |-> TRUE,
              query |-> IF url.query = <<>> THEN extend_pairs(pairs)
                        ELSE url.query \o <<"&">> \o extend_pairs(pairs)]

\* the pairs sign_moon_pay_url passes to parse_with_params
MoonPayParams(config, wallet_address, max_quote_currency_amount) ==
    << <<<<"apiKey">>, config.api_key>>,
       <<<<"currencyCode">>, config.currency_code>>,
       <<<<"colorCode">>, config.color_code>>,
       <<<<"redirectURL">>, config.redirect_url>>,
       <<<<"enabledPaymentMethods">>, config.enabled_payment_methods>>,
       <<<<"walletAddress">>, wallet_address>>,
       <<<<"maxQuoteCurrencyAmount">>, max_quote_currency_amount>> >>

\* answers of the signing service to a SignUrlRequest: an error, the URL
\* with a signature appended, or some other URL
SignerAnswerKinds == {"status", "signed", "other"}
SignUrlResponse(kind, request) ==
    CASE kind = "status" -> [ok |-> FALSE, full_url |-> <<>>]
      [] kind = "signed" ->
            [ok |-> TRUE,
             full_url |-> <<request.base_url>> \o request.query_string
                          \o <<"&", "signature", "=", "a_server_signature">>]
      [] kind = "other"  -> [ok |-> TRUE, full_url |-> <<"https://other.url">>]

\* MoonPayUrlSigner::sign_moon_pay_url of SignerClient: requests are the
\* SignUrlRequests sent, result and signed_url what the caller gets back
sign_moon_pay_url(config, wallet_address, max_quote_currency_amount, kind) ==
    LET url == parse_with_params(config.base_url,
                   MoonPayParams(config, wallet_address, max_quote_currency_amount))
        request  == [base_url |-> config.base_url, query_string |-> <<"?">> \o url.query]
        response == SignUrlResponse(kind, request)
    IN  IF ~url.ok
        THEN [requests |-> <<>>, result |-> "Err", signed_url |-> <<>>]
        ELSE IF ~response.ok
        THEN [requests |-> <<request>>, result |-> "Err", signed_url |-> <<>>]
        ELSE [requests |-> <<request>>, result |-> "Ok", signed_url |-> response.full_url]

\* MoonPayApi::sign_moon_pay_url: the signer called with the configuration
\* of the API and the two strings of url_data
MoonPayApi_sign_moon_pay_url(config, url_data, kind) ==
    sign_moon_pay_url(config, url_data.bitcoin_address, url_data.max_allowed_deposit, kind)

\* stub_moon_pay_config with the given base URL
stub_moon_pay_config(base_url) ==
    [base_url |-> base_url,
     api_key |-> <<"an", " ", "api", " ", "key">>,
     currency_code |-> <<"a", " ", "currency", " ", "code">>,
     color_code |-> <<"a", " ", "color", " ", "code">>,
     redirect_url |-> <<"a", " ", "redirect", " ", "url">>,
     enabled_payment_methods |-> <<"a", " ", "series">>]

\* the parameters one of which gets a tried value
MoonPayFields ==
    {"api_key", "currency_code", "color_code", "redirect_url", "enabled_payment_methods",
     "wallet_address", "max_quote_currency_amount"}

\* sign_moon_pay_url calls about to be made: the stub configuration and the
\* stub wallet address and amount, one of the seven with a tried value
SignUrlInputs ==
    { [called |-> FALSE, op |-> "sign",
       config |-> IF field \in DOMAIN stub_moon_pay_config(base_url)
                  THEN [stub_moon_pay_config(base_url) EXCEPT ![field] = value]
                  ELSE stub_moon_pay_config(base_url),
       url_data |-> [bitcoin_address |-> IF field = "wallet_address" THEN value
                                         ELSE <<"a", " ", "wallet", " ", "address">>,
                     max_allowed_deposit |-> IF field = "max_quote_currency_amount" THEN value
                                             ELSE <<"0.00100000">>],
       kind |-> kind] :
        base_url \in BaseUrlInputs, field \in MoonPayFields, value \in Values,
        kind \in SignerAnswerKinds }

\* the sign_moon_pay_url call held in last_sign_url, which then records the
\* call and what it returned
SignUrlObserved ==
    /\ last_sign_url \in SignUrlInputs
    /\ LET call == MoonPayApi_sign_moon_pay_url(last_sign_url.config, last_sign_url.url_data,
                                                last_sign_url.kind)
       IN  last_sign_url' =
               [called |-> TRUE, op |-> "sign", config |-> last_sign_url.config,
                url_data |-> last_sign_url.url_data, kind |-> last_sign_url.kind,
                requests |-> call.requests, result |-> call.result,
                signed_url |-> call.signed_url]
    /\ UNCHANGED <<reverse_swaps, reverse_swaps_info, overflow_checks, last_create,
                   last_claim_tx, last_store_op, task, trace>>

\* ------------------------------------------------------------------------
\* on_event and the monitoring cycle (reverseswap.rs)
\* ------------------------------------------------------------------------
\* the tasks that run on_event; the sequential specification uses the first
Handlers == {"h1", "h2"}

\* kinds of BreezEvent
EventKinds == {"NewBlock", "InvoicePaid", "Synced"}

\* answers of reverse_swapper_api.get_swap_status: an error or a status
StatusAnswers == {"Err"} \cup BoltzStatuses

\* a handler that is not running: its locals are gone; ret is what the last
\* on_event returned
IdleTask(event, ret) ==
    [pc |-> "idle", event |-> event, ret |-> ret, to_check |-> <<>>, monitored |-> <<>>, i |-> 1]

\* what a running cycle has done so far: the ids polled, the ids whose status
\* write failed, the ids a claim was built for, the ids a broadcast was
\* attempted for and those whose broadcast failed
EmptyTrace ==
    [polled |-> {}, persist_failed |-> {}, built |-> <<>>, broadcast |-> <<>>,
     broadcast_failed |-> {}]

\* on_event that runs the monitoring cycle for every kind of event
OnOtherEvent_runs_cycle(h) ==
    /\ task[h].pc = "idle"
    /\ \E e \in EventKinds \ {"NewBlock"} :
          LET lm == list_monitored(reverse_swaps, reverse_swaps_info, FALSE)
          IN  task' = [task EXCEPT ![h] =
                          [pc |-> "refresh", event |-> e, ret |-> "none",
                           to_check |-> lm.list, monitored |-> <<>>, i |-> 1]]
    /\ trace' = [trace EXCEPT ![h] = EmptyTrace]
    /\ last_create' = NoCreate
    /\ UNCHANGED <<last_claim_tx, last_store_op, last_sign_url>>
    /\ UNCHANGED <<reverse_swaps, reverse_swaps_info, overflow_checks>>

\* on_event with an event other than NewBlock: Ok(()) and nothing else
OnOtherEvent(h) ==
    /\ task[h].pc = "idle"
    /\ \E e \in EventKinds \ {"NewBlock"} :
          task' = [task EXCEPT ![h] = IdleTask(e, "Ok")]
    /\ trace' = [trace EXCEPT ![h] = EmptyTrace]
    /\ last_create' = NoCreate
    /\ UNCHANGED <<last_claim_tx, last_store_op, last_sign_url>>
    /\ UNCHANGED <<reverse_swaps, reverse_swaps_info, overflow_checks>>

\* on_event(NewBlock) -> execute_pending_reverse_swaps ->
\* refresh_monitored_reverse_swaps: let to_check = self.list_monitored()?
OnNewBlock(h) ==
    /\ task[h].pc = "idle"
    /\ \E fault \in BOOLEAN :
          LET lm == list_monitored(reverse_swaps, reverse_swaps_info, fault)
          IN  task' = [task EXCEPT ![h] =
                          IF lm.kind = "Ok"
                          THEN [pc |-> "refresh", event |-> "NewBlock", ret |-> "none",
                                to_check |-> lm.list, monitored |-> <<>>, i |-> 1]
                          ELSE IdleTask("NewBlock", lm.kind)]
    /\ trace' = [trace EXCEPT ![h] = EmptyTrace]
    /\ last_create' = NoCreate
    /\ UNCHANGED <<last_claim_tx, last_store_op, last_sign_url>>
    /\ UNCHANGED <<reverse_swaps, reverse_swaps_info, overflow_checks>>

\* Poll that skips a swap whose poll failed and goes on with the next
Poll_error_skips(h) ==
    /\ task[h].pc = "refresh"
    /\ task[h].i <= Len(task[h].to_check)
    /\ \E new_boltz_status \in StatusAnswers, fault \in BOOLEAN :
          LET id  == task[h].to_check[task[h].i].id
              upd == update_reverse_swap_boltz_status(reverse_swaps, id, new_boltz_status, fault)
          IN  IF new_boltz_status = "Err"
              THEN /\ task' = [task EXCEPT ![h].i = @ + 1]
                   /\ UNCHANGED trace
                   /\ UNCHANGED reverse_swaps
              ELSE /\ reverse_swaps' = upd.swaps
                   /\ task' = [task EXCEPT ![h].i = @ + 1]
                   /\ trace' = [trace EXCEPT ![h].polled = @ \cup {id},
                                             ![h].persist_failed =
                                                 IF upd.ok THEN @ ELSE @ \cup {id}]
    /\ last_create' = NoCreate
    /\ UNCHANGED <<last_claim_tx, last_store_op, last_sign_url>>
    /\ UNCHANGED <<reverse_swaps_info, overflow_checks>>

\* Poll that returns the error of a failed status write instead of logging it
Poll_persist_error_returns(h) ==
    /\ task[h].pc = "refresh"
    /\ task[h].i <= Len(task[h].to_check)
    /\ \E new_boltz_status \in StatusAnswers, fault \in BOOLEAN :
          LET id  == task[h].to_check[task[h].i].id
              upd == update_reverse_swap_boltz_status(reverse_swaps, id, new_boltz_status, fault)
          IN  IF new_boltz_status = "Err"
              THEN /\ task' = [task EXCEPT ![h] =
                                  IdleTask("NewBlock", "Err")]
                   /\ trace' = [trace EXCEPT ![h] = EmptyTrace]
                   /\ UNCHANGED reverse_swaps
              ELSE /\ reverse_swaps' = upd.swaps
                   /\ task' = [task EXCEPT ![h] =
                                  IF upd.ok THEN [@ EXCEPT !.i = @ + 1]
                                  ELSE IdleTask("NewBlock", "Err")]
                   /\ trace' = [trace EXCEPT ![h].polled = @ \cup {id},
                                             ![h].persist_failed =
                                                 IF upd.ok THEN @ ELSE @ \cup {id}]
    /\ last_create' = NoCreate
    /\ UNCHANGED <<last_claim_tx, last_store_op, last_sign_url>>
    /\ UNCHANGED <<reverse_swaps_info, overflow_checks>>

\* one iteration of the loop of refresh_monitored_reverse_swaps: poll the
\* provider (an error returns from the handler), then write the status (an
\* error is logged)
Poll(h) ==
    /\ task[h].pc = "refresh"
    /\ task[h].i <= Len(task[h].to_check)
    /\ \E new_boltz_status \in StatusAnswers, fault \in BOOLEAN :
          LET id  == task[h].to_check[task[h].i].id
              upd == update_reverse_swap_boltz_status(reverse_swaps, id, new_boltz_status, fault)
          IN  IF new_boltz_status = "Err"
              THEN /\ task' = [task EXCEPT ![h] =
                                  IdleTask("NewBlock", "Err")]
                   /\ trace' = [trace EXCEPT ![h] = EmptyTrace]
                   /\ UNCHANGED reverse_swaps
              ELSE /\ reverse_swaps' = upd.swaps
                   /\ task' = [task EXCEPT ![h].i = @ + 1]
                   /\ trace' = [trace EXCEPT ![h].polled = @ \cup {id},
                                             ![h].persist_failed =
                                                 IF upd.ok THEN @ ELSE @ \cup {id}]
    /\ last_create' = NoCreate
    /\ UNCHANGED <<last_claim_tx, last_store_op, last_sign_url>>
    /\ UNCHANGED <<reverse_swaps_info, overflow_checks>>

\* end of refresh_monitored_reverse_swaps: self.list_monitored(), whose
\* result execute_pending_reverse_swaps unwraps with ?
RefreshDone(h) ==
    /\ task[h].pc = "refresh"
    /\ task[h].i > Len(task[h].to_check)
    /\ \E fault \in BOOLEAN :
          LET lm == list_monitored(reverse_swaps, reverse_swaps_info, fault)
          IN  IF lm.kind = "Ok"
              THEN /\ task' = [task EXCEPT ![h].pc = "claim", ![h].to_check = <<>>,
                                           ![h].monitored = lm.list, ![h].i = 1]
                   /\ UNCHANGED trace
              ELSE /\ task' = [task EXCEPT ![h] = IdleTask("NewBlock", lm.kind)]
                   /\ trace' = [trace EXCEPT ![h] = EmptyTrace]
    /\ last_create' = NoCreate
    /\ UNCHANGED <<last_claim_tx, last_store_op, last_sign_url>>
    /\ UNCHANGED <<reverse_swaps, reverse_swaps_info, overflow_checks>>

\* ShouldClaim that also claims while the lock transaction is unconfirmed
ShouldClaim_unconfirmed(rs) == status(rs) \in {"LockTxUnconfirmed", "LockTxConfirmed"}

\* if rs.status() == ReverseSwapStatus::LockTxConfirmed
ShouldClaim(rs) == status(rs) = "LockTxConfirmed"

\* Claim that writes "claim transaction seen" to the store once the claim is
\* broadcast
Claim_optimistic_update(h) ==
    /\ task[h].pc = "claim"
    /\ task[h].i <= Len(task[h].monitored)
    /\ LET rs == task[h].monitored[task[h].i]
       IN  IF ~ShouldClaim(rs)
           THEN /\ task' = [task EXCEPT ![h].i = @ + 1]
                /\ UNCHANGED <<trace, reverse_swaps>>
           ELSE \E utxos \in UtxoAnswers, recommended_fees \in FeeAnswers,
                   claim_tx_broadcast_res \in {"Ok", "Err"} :
                   LET claim_tx == create_claim_tx(rs, utxos, recommended_fees, overflow_checks)
                   IN  IF claim_tx.kind = "Ok"
                       THEN /\ task' = [task EXCEPT ![h].i = @ + 1]
                            /\ trace' = [trace EXCEPT
                                  ![h].built = Append(@, rs.id),
                                  ![h].broadcast = Append(@, rs.id),
                                  ![h].broadcast_failed =
                                      IF claim_tx_broadcast_res = "Err" THEN @ \cup {rs.id} ELSE @]
                            /\ reverse_swaps' =
                                  update_reverse_swap_boltz_status(reverse_swaps, rs.id,
                                                                   "InvoiceSettled", FALSE).swaps
                       ELSE /\ task' = [task EXCEPT ![h] = IdleTask("NewBlock", claim_tx.kind)]
                            /\ trace' = [trace EXCEPT ![h] = EmptyTrace]
                            /\ UNCHANGED reverse_swaps
    /\ last_create' = NoCreate
    /\ UNCHANGED <<last_claim_tx, last_store_op, last_sign_url>>
    /\ UNCHANGED <<reverse_swaps_info, overflow_checks>>

\* Claim that returns the error of a failed broadcast
Claim_broadcast_error_returns(h) ==
    /\ task[h].pc = "claim"
    /\ task[h].i <= Len(task[h].monitored)
    /\ LET rs == task[h].monitored[task[h].i]
       IN  IF ~ShouldClaim(rs)
           THEN /\ task' = [task EXCEPT ![h].i = @ + 1]
                /\ UNCHANGED trace
           ELSE \E utxos \in UtxoAnswers, recommended_fees \in FeeAnswers,
                   claim_tx_broadcast_res \in {"Ok", "Err"} :
                   LET claim_tx == create_claim_tx(rs, utxos, recommended_fees, overflow_checks)
                   IN  IF claim_tx.kind = "Ok"
                       THEN /\ task' = [task EXCEPT ![h] =
                                          IF claim_tx_broadcast_res = "Err"
                                          THEN IdleTask("NewBlock", "Err")
                                          ELSE [@ EXCEPT !.i = @ + 1]]
                            /\ trace' = [trace EXCEPT
                                  ![h].built = Append(@, rs.id),
                                  ![h].broadcast = Append(@, rs.id),
                                  ![h].broadcast_failed =
                                      IF claim_tx_broadcast_res = "Err" THEN @ \cup {rs.id} ELSE @]
                       ELSE /\ task' = [task EXCEPT ![h] = IdleTask("NewBlock", claim_tx.kind)]
                            /\ trace' = [trace EXCEPT ![h] = EmptyTrace]
    /\ last_create' = NoCreate
    /\ UNCHANGED <<last_claim_tx, last_store_op, last_sign_url>>
    /\ UNCHANGED <<reverse_swaps, reverse_swaps_info, overflow_checks>>

\* one iteration of the loop of execute_pending_reverse_swaps: for a swap in
\* LockTxConfirmed build the claim (an error returns from the handler) and
\* broadcast it (the result is logged)
Claim(h) ==
    /\ task[h].pc = "claim"
    /\ task[h].i <= Len(task[h].monitored)
    /\ LET rs == task[h].monitored[task[h].i]
       IN  IF ~ShouldClaim(rs)
           THEN /\ task' = [task EXCEPT ![h].i = @ + 1]
                /\ UNCHANGED trace
           ELSE \E utxos \in UtxoAnswers, recommended_fees \in FeeAnswers,
                   claim_tx_broadcast_res \in {"Ok", "Err"} :
                   LET claim_tx == create_claim_tx(rs, utxos, recommended_fees, overflow_checks)
                   IN  IF claim_tx.kind = "Ok"
                       THEN /\ task' = [task EXCEPT ![h].i = @ + 1]
                            /\ trace' = [trace EXCEPT
                                  ![h].built = Append(@, rs.id),
                                  ![h].broadcast = Append(@, rs.id),
                                  ![h].broadcast_failed =
                                      IF claim_tx_broadcast_res = "Err" THEN @ \cup {rs.id} ELSE @]
                       ELSE /\ task' = [task EXCEPT ![h] = IdleTask("NewBlock", claim_tx.kind)]
                            /\ trace' = [trace EXCEPT ![h] = EmptyTrace]
    /\ last_create' = NoCreate
    /\ UNCHANGED <<last_claim_tx, last_store_op, last_sign_url>>
    /\ UNCHANGED <<reverse_swaps, reverse_swaps_info, overflow_checks>>

\* end of execute_pending_reverse_swaps: Ok(())
Finish(h) ==
    /\ task[h].pc = "claim"
    /\ task[h].i > Len(task[h].monitored)
    /\ task' = [task EXCEPT ![h] =
                   IdleTask("NewBlock", "Ok")]
    /\ trace' = [trace EXCEPT ![h] = EmptyTrace]
    /\ last_create' = NoCreate
    /\ UNCHANGED <<last_claim_tx, last_store_op, last_sign_url>>
    /\ UNCHANGED <<reverse_swaps, reverse_swaps_info, overflow_checks>>

\* {rs:?}: the Debug text of a ReverseSwapInfo, every field with its value
\* as a derived Debug prints it
DebugFmt(rs) == [type_name |-> "ReverseSwapInfo", fields |-> rs]

\* info!("Checking monitored {rs:?}"): the line every iteration of the claim
\* loop starts with
CheckingMonitoredLine(rs) ==
    [level |-> "info", msg |-> "Checking monitored", id |-> rs.id,
     status |-> "", rs |-> <<DebugFmt(rs)>>]

\* the line an iteration of the refresh loop ends with: info!("Updated Boltz
\* status ...") or error!("Failed to update Boltz status ...: {e}")
UpdatedStatusLine(id, new_boltz_status, upd) ==
    [level |-> IF upd.ok THEN "info" ELSE "error",
     msg |-> IF upd.ok THEN "Updated Boltz status for reverse swap ID"
             ELSE "Failed to update Boltz status for reverse swap ID",
     id |-> id, status |-> new_boltz_status, rs |-> <<>>]

\* a restart that comes back with empty tables
Restart_with_empty_store(h) ==
    /\ task' = [task EXCEPT ![h] = IdleTask("none", "none")]
    /\ trace' = [trace EXCEPT ![h] = EmptyTrace]
    /\ reverse_swaps' = <<>>
    /\ reverse_swaps_info' = <<>>
    /\ last_create' = NoCreate
    /\ UNCHANGED <<last_claim_tx, last_store_op, last_sign_url>>
    /\ UNCHANGED overflow_checks

\* the process stops, at any point of a handler, and is started again:
\* BTCSendSwap::new builds the engine from the persister, the handler and its
\* locals are gone, the tables are those of the database file
Restart(h) ==
    /\ task' = [task EXCEPT ![h] = IdleTask("none", "none")]
    /\ trace' = [trace EXCEPT ![h] = EmptyTrace]
    /\ last_create' = NoCreate
    /\ UNCHANGED <<last_claim_tx, last_store_op, last_sign_url>>
    /\ UNCHANGED <<reverse_swaps, reverse_swaps_info, overflow_checks>>

\* ------------------------------------------------------------------------
\* Specification: creates, and chain events handled one at a time
\* ------------------------------------------------------------------------
Init ==
    /\ reverse_swaps = <<>>
    /\ reverse_swaps_info = <<>>
    /\ overflow_checks \in BOOLEAN
    /\ last_create = NoCreate
    /\ last_sign_url = NoSignUrl
    /\ last_store_op = NoStoreOp
    /\ last_claim_tx = NoClaimTx
    /\ task = [h \in Handlers |-> IdleTask("none", "none")]
    /\ trace = [h \in Handlers |-> EmptyTrace]

Next ==
    \/ Create
    \/ OnOtherEvent("h1")
    \/ OnNewBlock("h1")
    \/ Poll("h1")
    \/ RefreshDone("h1")
    \/ Claim("h1")
    \/ Finish("h1")

Spec == Init /\ [][Next]_vars

\* ------------------------------------------------------------------------
\* Specification: create_reverse_swap calls only, each one observed
\* ------------------------------------------------------------------------
NextCreate == CreateObserved

SpecCreate == Init /\ [][NextCreate]_vars

\* ------------------------------------------------------------------------
\* Specification: create_claim_tx calls only, each one observed
\* ------------------------------------------------------------------------
InitBuilder ==
    /\ \E inputs \in ClaimTxInputs :
          /\ last_claim_tx = inputs
          /\ reverse_swaps = <<SwapRow(inputs.rs)>>
          /\ reverse_swaps_info = <<InfoRow(inputs.rs)>>
    /\ overflow_checks \in BOOLEAN
    /\ last_create = NoCreate
    /\ last_sign_url = NoSignUrl
    /\ last_store_op = NoStoreOp
    /\ task = [h \in Handlers |-> IdleTask("none", "none")]
    /\ trace = [h \in Handlers |-> EmptyTrace]

NextBuilder == ClaimTxObserved \/ ClaimTxRepeated

SpecBuilder == InitBuilder /\ [][NextBuilder]_vars

\* ------------------------------------------------------------------------
\* Specification: calls of the swap store only, each one observed
\* ------------------------------------------------------------------------
InitStore ==
    /\ \E contents \in StoreContents :
          /\ reverse_swaps = [k \in 1 .. Len(contents) |-> SwapRow(contents[k])]
          /\ reverse_swaps_info = [k \in 1 .. Len(contents) |-> InfoRow(contents[k])]
    /\ overflow_checks = FALSE
    /\ last_create = NoCreate
    /\ last_sign_url = NoSignUrl
    /\ last_claim_tx = NoClaimTx
    /\ last_store_op \in InsertInputs \cup UpdateInputs
    /\ task = [h \in Handlers |-> IdleTask("none", "none")]
    /\ trace = [h \in Handlers |-> EmptyTrace]

NextStore == InsertObserved \/ UpdateObserved

SpecStore == InitStore /\ [][NextStore]_vars

\* ------------------------------------------------------------------------
\* Specification: creates, chain events handled one at a time, and restarts
\* ------------------------------------------------------------------------
NextRestart == Next \/ Restart("h1")

SpecRestart == Init /\ [][NextRestart]_vars

\* ------------------------------------------------------------------------
\* Specification: chain events handled by two tasks at once, over a store
\* that holds one swap; on_event takes &self and awaits at every call of a
\* service, so the steps of two handlers interleave there
\* ------------------------------------------------------------------------
InitConcurrent ==
    /\ \E boltz_status \in BoltzStatuses :
          LET rsi == StoredRecord(1, "bc1q_dest", LockupOf(1), boltz_status)
          IN  /\ reverse_swaps = <<SwapRow(rsi)>>
              /\ reverse_swaps_info = <<InfoRow(rsi)>>
    /\ overflow_checks \in BOOLEAN
    /\ last_create = NoCreate
    /\ last_sign_url = NoSignUrl
    /\ last_store_op = NoStoreOp
    /\ last_claim_tx = NoClaimTx
    /\ task = [h \in Handlers |-> IdleTask("none", "none")]
    /\ trace = [h \in Handlers |-> EmptyTrace]

NextConcurrent ==
    \/ OnNewBlock("h1")
    \/ Poll("h1")
    \/ RefreshDone("h1")
    \/ Claim("h1")
    \/ Finish("h1")
    \/ OnNewBlock("h2")
    \/ Poll("h2")
    \/ RefreshDone("h2")
    \/ Claim("h2")
    \/ Finish("h2")

SpecConcurrent == InitConcurrent /\ [][NextConcurrent]_vars

\* ------------------------------------------------------------------------
\* Specification: sign_moon_pay_url calls only, each one observed
\* ------------------------------------------------------------------------
InitMoonPay ==
    /\ reverse_swaps = <<>>
    /\ reverse_swaps_info = <<>>
    /\ overflow_checks = FALSE
    /\ last_create = NoCreate
    /\ last_claim_tx = NoClaimTx
    /\ last_store_op = NoStoreOp
    /\ last_sign_url \in SignUrlInputs
    /\ task = [h \in Handlers |-> IdleTask("none", "none")]
    /\ trace = [h \in Handlers |-> EmptyTrace]

NextMoonPay == SignUrlObserved

SpecMoonPay == InitMoonPay /\ [][NextMoonPay]_vars

\* ------------------------------------------------------------------------
\* Specification: chain events that keep arriving, over a store of two
\* swaps.  For the swap stored last the services behave well: its polls are
\* answered LockTxConfirmed or InvoiceSettled, and in the end InvoiceSettled,
\* its status writes succeed, its lockup address holds confirmed funds above
\* the fee and its broadcast succeeds.  For the swap stored first they answer
\* anything.  The handler is a task that keeps running: each of its steps is
\* weakly fair (for the claim loop the fairness condition is written with
\* the states in which the step is enabled).
\* ------------------------------------------------------------------------
InitLive ==
    /\ \E boltz_status \in BoltzStatuses :
          LET other  == StoredRecord(1, "bc1q_dest", LockupOf(1), boltz_status)
              target == StoredRecord(2, "bc1q_dest", LockupOf(2), "LockTxConfirmed")
          IN  /\ reverse_swaps = <<SwapRow(other), SwapRow(target)>>
              /\ reverse_swaps_info = <<InfoRow(other), InfoRow(target)>>
    /\ overflow_checks \in BOOLEAN
    /\ last_create = NoCreate
    /\ last_sign_url = NoSignUrl
    /\ last_store_op = NoStoreOp
    /\ last_claim_tx = NoClaimTx
    /\ task = [h \in Handlers |-> IdleTask("none", "none")]
    /\ trace = [h \in Handlers |-> EmptyTrace]

\* a chain-tip event arrives and the store answers the first list_monitored
LiveNewBlock ==
    /\ OnNewBlock("h1")
    /\ task'["h1"].pc = "refresh"

\* a poll; the poll of the swap stored last is answered and written
LivePoll ==
    /\ Poll("h1")
    /\ task["h1"].to_check[task["h1"].i].id = reverse_swaps[Len(reverse_swaps)].id =>
          /\ task'["h1"].pc = "refresh"
          /\ trace'["h1"].persist_failed = trace["h1"].persist_failed
          /\ reverse_swaps'[Len(reverse_swaps')].boltz_api_status
                \in {"LockTxConfirmed", "InvoiceSettled"}

\* the poll of the swap stored last is answered InvoiceSettled
LivePollSettled ==
    /\ LivePoll
    /\ task["h1"].to_check[task["h1"].i].id = reverse_swaps[Len(reverse_swaps)].id
    /\ reverse_swaps'[Len(reverse_swaps')].boltz_api_status = "InvoiceSettled"

\* the store answers the second list_monitored
LiveRefreshDone ==
    /\ RefreshDone("h1")
    /\ task'["h1"].pc = "claim"

\* an iteration of the claim loop; the claim of the swap stored last is
\* built and its broadcast succeeds
LiveClaim ==
    /\ Claim("h1")
    /\ task["h1"].monitored[task["h1"].i].id = reverse_swaps[Len(reverse_swaps)].id =>
          /\ task'["h1"].pc = "claim"
          /\ trace'["h1"].broadcast_failed = trace["h1"].broadcast_failed

\* the handler is in its claim loop with a swap left to look at: the states
\* in which LiveClaim is enabled
ClaimLoopRunning ==
    /\ task["h1"].pc = "claim"
    /\ task["h1"].i <= Len(task["h1"].monitored)

NextLive ==
    \/ LiveNewBlock
    \/ LivePoll
    \/ LiveRefreshDone
    \/ LiveClaim
    \/ Finish("h1")

SpecLive ==
    /\ InitLive
    /\ [][NextLive]_vars
    /\ WF_vars(LiveNewBlock \/ LivePoll \/ LiveRefreshDone \/ Finish("h1"))
    /\ \/ []<>~ClaimLoopRunning
       \/ []<><<LiveClaim>>_vars
    /\ SF_vars(LivePollSettled)

\* ------------------------------------------------------------------------
\* Properties
\* ------------------------------------------------------------------------
\* the ids of a sequence of records
IdsOf(list) == { list[k].id : k \in 1 .. Len(list) }

\* the elements of a sequence of ids
Range(ids) == { ids[k] : k \in 1 .. Len(ids) }

\* how many times id occurs in a sequence of ids
Count(ids, id) == Cardinality({ k \in 1 .. Len(ids) : ids[k] = id })

\* what list_monitored() returns in the current state when the database works
MonitoredNow == list_monitored(reverse_swaps, reverse_swaps_info, FALSE)

\* C1: once "expired" is the persisted status of a swap, every later step
\* leaves it expired and out of list_monitored(), and no later step polls it,
\* builds a claim for it or broadcasts one.
C1_ExpiredStaysOut ==
    [][\A k \in 1 .. Len(reverse_swaps) :
          reverse_swaps[k].boltz_api_status = "SwapExpired" =>
              LET id == reverse_swaps[k].id
              IN  /\ Len(reverse_swaps') >= k
                  /\ reverse_swaps'[k].id = id
                  /\ reverse_swaps'[k].boltz_api_status = "SwapExpired"
                  /\ id \notin IdsOf(list_monitored(reverse_swaps', reverse_swaps_info', FALSE).list)
                  /\ \A h \in Handlers :
                        /\ id \in trace'[h].polled => id \in trace[h].polled
                        /\ id \in Range(trace'[h].built) => id \in Range(trace[h].built)
                        /\ id \in Range(trace'[h].broadcast) => id \in Range(trace[h].broadcast)
                        /\ \A j \in 1 .. Len(task'[h].monitored) :
                              task'[h].monitored[j].id = id =>
                                  /\ j <= Len(task[h].monitored)
                                  /\ task[h].monitored[j] = task'[h].monitored[j]]_vars

\* C1 witness: a swap is persisted as expired, and a chain-tip cycle that
\* started afterwards (it never polled that swap) has broadcast a claim for
\* another swap.
C1_Witness ==
    \E k \in 1 .. Len(reverse_swaps) :
        /\ reverse_swaps[k].boltz_api_status = "SwapExpired"
        /\ task["h1"].pc = "claim"
        /\ reverse_swaps[k].id \notin trace["h1"].polled
        /\ trace["h1"].broadcast # <<>>

\* C2: at the end of a cycle whose polls and builder calls all succeeded, a
\* broadcast was attempted exactly once for each swap of the re-read list in
\* status LockTxConfirmed and for no other swap; the re-read list holds no
\* swap twice.
C2_ClaimExactlyConfirmed ==
    \A h \in Handlers :
        (task[h].pc = "claim" /\ task[h].i > Len(task[h].monitored)) =>
            /\ \A k \in 1 .. Len(task[h].monitored) :
                  LET rs == task[h].monitored[k]
                  IN  /\ rs.boltz_api_status = "LockTxConfirmed" =>
                            Count(trace[h].broadcast, rs.id) = 1
                      /\ rs.boltz_api_status # "LockTxConfirmed" =>
                            Count(trace[h].broadcast, rs.id) = 0
                      /\ \A j \in 1 .. Len(task[h].monitored) :
                            task[h].monitored[j].id = rs.id => j = k
            /\ Range(trace[h].broadcast) \subseteq IdsOf(task[h].monitored)

\* C2 witness: a cycle is at its end with a claimed swap and an unclaimed,
\* unconfirmed swap in its re-read list.
C2_Witness ==
    /\ task["h1"].pc = "claim"
    /\ task["h1"].i > Len(task["h1"].monitored)
    /\ \E k, j \in 1 .. Len(task["h1"].monitored) :
          /\ task["h1"].monitored[k].boltz_api_status = "LockTxConfirmed"
          /\ task["h1"].monitored[j].boltz_api_status = "LockTxMempool"

\* C3: list_monitored() succeeds and returns exactly the persisted swaps whose
\* persisted status is neither "claim transaction seen" nor "expired", each
\* once and with its persisted status.
C3_MonitoredIsNonTerminal ==
    /\ MonitoredNow.kind = "Ok"
    /\ \A k \in 1 .. Len(reverse_swaps) :
          LET row == reverse_swaps[k]
              hits == { j \in 1 .. Len(MonitoredNow.list) : MonitoredNow.list[j].id = row.id }
          IN  IF row.boltz_api_status \in {"InvoiceSettled", "SwapExpired"}
              THEN hits = {}
              ELSE /\ Cardinality(hits) = 1
                   /\ \A j \in hits : MonitoredNow.list[j].boltz_api_status = row.boltz_api_status
    /\ IdsOf(MonitoredNow.list) \subseteq IdsOf(reverse_swaps)

\* C3 witness: the store holds a swap in a terminal status next to a swap
\* that is monitored.
C3_Witness ==
    \E k, j \in 1 .. Len(reverse_swaps) :
        /\ reverse_swaps[k].boltz_api_status \in {"InvoiceSettled", "SwapExpired"}
        /\ reverse_swaps[j].boltz_api_status = "LockTxConfirmed"
        /\ Len(MonitoredNow.list) = 1

\* C4: a create call with a malformed destination address returns the
\* invalid-address error, makes no call to the provider and leaves both
\* tables of the swap store as they were.
C4_InvalidAddressNoEffect ==
    [][(last_create'.called /\ last_create'.destination_address = "not an address") =>
          /\ last_create'.result = "Err"
          /\ last_create'.error = "Invalid destination address"
          /\ last_create'.requests = <<>>
          /\ reverse_swaps' = reverse_swaps
          /\ reverse_swaps_info' = reverse_swaps_info]_vars

\* C4 witness: a create call with the malformed address has returned while
\* the store holds a swap.
C4_Witness ==
    /\ last_create.called
    /\ last_create.destination_address = "not an address"
    /\ Len(reverse_swaps) >= 1

\* C5: the record a create call returns after the provider accepted has the
\* id of the provider's answer, the status "created", which is not terminal,
\* and the answer's lockup_address and onchain_amount as cache; that very
\* record is what list_monitored() returns for the id right afterwards.
C5_CreatedRecord ==
    (last_create.called /\ last_create.result = "Ok") =>
        LET rsi == last_create.info[1]
        IN  /\ last_create.answer.kind = "BoltzApiSuccess"
            /\ rsi.id = last_create.answer.id
            /\ rsi.boltz_api_status = "SwapCreated"
            /\ status(rsi) = "Created"
            /\ rsi.cache = [lockup_address |-> last_create.answer.lockup_address,
                            onchain_amount_sat |-> last_create.answer.onchain_amount]
            /\ MonitoredNow.kind = "Ok"
            /\ \E k \in 1 .. Len(MonitoredNow.list) : MonitoredNow.list[k] = rsi
            /\ \A k \in 1 .. Len(MonitoredNow.list) :
                  MonitoredNow.list[k].id = rsi.id => MonitoredNow.list[k] = rsi

\* C5 witness: a create call has returned a record for the second swap of
\* the store.
C5_Witness ==
    /\ last_create.called
    /\ last_create.result = "Ok"
    /\ Len(reverse_swaps) >= 2

\* C6: a create call that the provider answers with a business error returns
\* that error and leaves both tables of the swap store as they were.
C6_BusinessErrorNoRecord ==
    [][(/\ last_create'.called
        /\ last_create'.requests # <<>>
        /\ last_create'.answer.kind = "BoltzApiError") =>
          /\ last_create'.result = "Err"
          /\ last_create'.error = last_create'.answer.error
          /\ reverse_swaps' = reverse_swaps
          /\ reverse_swaps_info' = reverse_swaps_info]_vars

\* C6 witness: the provider has answered a create call with a business error
\* while the store holds a swap.
C6_Witness ==
    /\ last_create.called
    /\ last_create.requests # <<>>
    /\ last_create.answer.kind = "BoltzApiError"
    /\ Len(reverse_swaps) >= 1

\* C7: a step of the poll loop, also one whose poll fails, leaves the
\* handler in its cycle as long as other swaps of the list are still to be
\* polled, so that they are polled and the claim step runs.
C7_PollFailureDoesNotBlock ==
    [][\A h \in Handlers :
          (task[h].pc = "refresh" /\ task[h].i < Len(task[h].to_check)) =>
              task'[h].pc = "refresh"]_vars

\* C8: a step of the claim loop, also one whose builder call fails, leaves
\* the handler in the claim loop as long as a later swap of the list is in
\* status LockTxConfirmed, so that this swap's claim is built and broadcast.
C8_BuilderErrorAbortsOnlyOne ==
    [][\A h \in Handlers :
          (/\ task[h].pc = "claim"
           /\ \E k \in (task[h].i + 1) .. Len(task[h].monitored) :
                 status(task[h].monitored[k]) = "LockTxConfirmed") =>
              task'[h].pc = "claim"]_vars

\* C9: a step of the poll loop in which writing the polled status fails goes
\* on to the next swap without changing the store; every swap of the list is
\* polled before the list is read again, and when that read succeeds the
\* claim step starts.
C9_PersistFailureContinues ==
    [][\A h \in Handlers :
          /\ (trace'[h].persist_failed # trace[h].persist_failed /\ trace'[h].persist_failed # {}) =>
                /\ task'[h].pc = "refresh"
                /\ task'[h].i = task[h].i + 1
                /\ task'[h].to_check = task[h].to_check
                /\ reverse_swaps' = reverse_swaps
          /\ (task[h].pc = "refresh" /\ task[h].i > Len(task[h].to_check) /\ task'[h] # task[h]) =>
                /\ trace[h].polled = IdsOf(task[h].to_check)
                /\ task'[h].pc = "claim" \/ task'[h].ret \in {"Err", "Panic"}]_vars

\* C9 witness: the claim step of a cycle has broadcast a claim although the
\* status write of one of several polled swaps failed.
C9_Witness ==
    /\ task["h1"].pc = "claim"
    /\ trace["h1"].persist_failed # {}
    /\ trace["h1"].polled \ trace["h1"].persist_failed # {}
    /\ trace["h1"].broadcast # <<>>

C11_ClaimDoesNotWrite ==
    [][/\ \A h \in Handlers :
            (task[h].pc = "claim" /\ task'[h] # task[h]) =>
                /\ reverse_swaps' = reverse_swaps
                /\ reverse_swaps_info' = reverse_swaps_info
       /\ \A k \in 1 .. Len(reverse_swaps) :
            (/\ Len(reverse_swaps') >= k
             /\ reverse_swaps'[k].boltz_api_status # reverse_swaps[k].boltz_api_status) =>
                \E h \in Handlers :
                    /\ task[h].pc = "refresh"
                    /\ task[h].i <= Len(task[h].to_check)
                    /\ task[h].to_check[task[h].i].id = reverse_swaps[k].id
                    /\ task'[h].i = task[h].i + 1]_vars

\* C11 witness: a claim loop has broadcast two claims, one of them failed,
\* and both swaps are still persisted as LockTxConfirmed.
C11_Witness ==
    /\ task["h1"].pc = "claim"
    /\ Len(trace["h1"].broadcast) = 2
    /\ trace["h1"].broadcast_failed # {}
    /\ trace["h1"].broadcast_failed # Range(trace["h1"].broadcast)
    /\ \A k \in 1 .. Len(reverse_swaps) :
          reverse_swaps[k].id \in Range(trace["h1"].broadcast) =>
              reverse_swaps[k].boltz_api_status = "LockTxConfirmed"

\* the lifecycle stage of a persisted status: created, lock transaction
\* unconfirmed, lock transaction confirmed, then one of the terminal statuses
LifecycleStage(boltz_status) ==
    CASE boltz_status = "SwapCreated"     -> 0
      [] boltz_status = "LockTxMempool"   -> 1
      [] boltz_status = "LockTxConfirmed" -> 2
      [] OTHER                            -> 3

\* C12: no step moves the persisted status of a swap to an earlier lifecycle
\* stage, whatever status the provider reports.
C12_StatusMonotonic ==
    [][\A k \in 1 .. Len(reverse_swaps) :
          /\ Len(reverse_swaps') >= k
          /\ reverse_swaps'[k].id = reverse_swaps[k].id
          /\ LifecycleStage(reverse_swaps'[k].boltz_api_status) >=
                LifecycleStage(reverse_swaps[k].boltz_api_status)]_vars

\* C13: every step keeps each row of both tables in its place with every
\* column but boltz_api_status as it was, and leaves the ids of each table
\* pairwise distinct.
C13_RecordsImmutable ==
    [][/\ \A k \in 1 .. Len(reverse_swaps) :
            /\ Len(reverse_swaps') >= k
            /\ reverse_swaps'[k] =
                  [reverse_swaps[k] EXCEPT !.boltz_api_status = reverse_swaps'[k].boltz_api_status]
       /\ \A k \in 1 .. Len(reverse_swaps_info) :
            /\ Len(reverse_swaps_info') >= k
            /\ reverse_swaps_info'[k] = reverse_swaps_info[k]
       /\ \A k, j \in 1 .. Len(reverse_swaps') :
            reverse_swaps'[k].id = reverse_swaps'[j].id => k = j
       /\ \A k, j \in 1 .. Len(reverse_swaps_info') :
            reverse_swaps_info'[k].id = reverse_swaps_info'[j].id => k = j]_vars

\* C13 witness: the store is full, the status of every swap has been
\* rewritten by polls, and a cycle is running.
C13_Witness ==
    /\ Len(reverse_swaps) = MaxSwaps
    /\ \A k \in 1 .. Len(reverse_swaps) : reverse_swaps[k].boltz_api_status # "SwapCreated"
    /\ task["h1"].pc = "claim"

\* C14: a handler leaves idle, polls, builds or broadcasts only for a
\* NewBlock event; on_event with any other event returns Ok at once, with
\* nothing polled, built or broadcast and the swap store as it was.
C14_OnlyNewBlockStartsCycle ==
    [][\A h \in Handlers :
          /\ (task[h].pc = "idle" /\ task'[h] # task[h] /\ task'[h].event # "NewBlock") =>
                /\ task'[h] = IdleTask(task'[h].event, "Ok")
                /\ trace'[h] = EmptyTrace
                /\ reverse_swaps' = reverse_swaps
                /\ reverse_swaps_info' = reverse_swaps_info
          /\ (task'[h].pc # "idle" \/ trace'[h] # EmptyTrace) => task'[h].event = "NewBlock"]_vars

\* C14 witness: on_event has returned Ok for a Synced event while the store
\* holds a monitored swap in LockTxConfirmed.
C14_Witness ==
    /\ task["h1"] = IdleTask("Synced", "Ok")
    /\ \E k \in 1 .. Len(reverse_swaps) : reverse_swaps[k].boltz_api_status = "LockTxConfirmed"

\* the create_claim_tx call observed in this state went through the address
\* checks and got both answers of the chain service
ClaimTxComputed ==
    /\ last_claim_tx.called
    /\ last_claim_tx.result.calls = <<"address_transactions", "recommended_fees">>
    /\ last_claim_tx.recommended_fees.ok

\* C15: create_claim_tx returns a transaction only with an output value that
\* is strictly positive, so not the result of an underflowed subtraction, and
\* a fee that is not below the confirmed amount ends in an error, never in a
\* panic of the subtraction.
C15_FeeExceedsAmountFails ==
    ClaimTxComputed =>
        /\ last_claim_tx.result.kind = "Ok" => last_claim_tx.result.tx.output[1].value > 0
        /\ last_claim_tx.result.error # "attempt to subtract with overflow"

\* C16: create_claim_tx called for a lockup address without a confirmed
\* output returns an error, so that there is nothing to broadcast.
C16_NoConfirmedFundsFails ==
    (/\ last_claim_tx.called
     /\ last_claim_tx.utxos.ok
     /\ last_claim_tx.utxos.confirmed = <<>>) =>
        last_claim_tx.result.kind = "Err"

\* C17: a transaction that create_claim_tx returns has exactly one output,
\* whose value is strictly positive, has not wrapped, and is the sum of the
\* confirmed input values minus the fee.
C17_OutputIsSumMinusFee ==
    (last_claim_tx.called /\ last_claim_tx.result.kind = "Ok") =>
        LET tx == last_claim_tx.result.tx
        IN  /\ Len(tx.output) = 1
            /\ tx.output[1].value > 0
            /\ tx.output[1].value =
                  SumValues(last_claim_tx.utxos.confirmed) - last_claim_tx.result.fees

\* C18: for fee rates up to 200 sat/vbyte, the fee of a returned transaction
\* is weight * sat_per_vbyte / 4 rounded up, with weight = stripped size * 4
\* + 217 * number of inputs.
C18_FeeIsCeiling ==
    (/\ last_claim_tx.called
     /\ last_claim_tx.result.kind = "Ok"
     /\ last_claim_tx.recommended_fees.half_hour_fee <= 200) =>
        LET n      == Len(last_claim_tx.utxos.confirmed)
            dest   == AddressFromStr(last_claim_tx.rs.destination_address)
            weight == strippedsize(n, dest) * 4 + 217 * n
            exact  == weight * last_claim_tx.recommended_fees.half_hour_fee
        IN  last_claim_tx.result.fees = (exact + 3) \div 4

\* the errors of create_claim_tx for a lockup address of a type it does not
\* support
UnsupportedLockAddressType ==
    {"Unexpected lock address type", "Could not determine lock address type"}

\* the lockup address of the observed create_claim_tx call is not a P2WSH
\* address
LockupNotP2wsh ==
    /\ last_claim_tx.called
    /\ AddressFromStr(last_claim_tx.rs.cache.lockup_address).address_type # "P2wsh"

\* C19: create_claim_tx on a record whose lockup address is not of type
\* P2WSH returns the unsupported-lock-address-type error, with no call to the
\* chain service and no transaction.
C19_NonP2wshUnsupported ==
    LockupNotP2wsh =>
        /\ last_claim_tx.result.kind = "Err"
        /\ last_claim_tx.result.error \in UnsupportedLockAddressType
        /\ last_claim_tx.result.calls = <<>>
        /\ last_claim_tx.result.tx = <<>>

\* C19 as corrected: create_claim_tx on a record whose lockup address is not
\* of type P2WSH returns an error, with no call to the chain service and no
\* transaction; the error is the unsupported-lock-address-type error when the
\* lockup address, the destination address and the redeem script all parse.
C19_NonP2wshFails ==
    LockupNotP2wsh =>
        /\ last_claim_tx.result.kind = "Err"
        /\ last_claim_tx.result.calls = <<>>
        /\ last_claim_tx.result.tx = <<>>
        /\ (/\ AddressFromStr(last_claim_tx.rs.cache.lockup_address).ok
            /\ AddressFromStr(last_claim_tx.rs.destination_address).ok
            /\ ScriptFromHex(last_claim_tx.rs.redeem_script).ok) =>
               last_claim_tx.result.error \in UnsupportedLockAddressType

\* C19 witness: create_claim_tx has refused a record with a P2SH lockup
\* address although the lookup would have returned a confirmed output.
C19_Witness ==
    /\ last_claim_tx.called
    /\ last_claim_tx.rs.cache.lockup_address = "3_lock"
    /\ last_claim_tx.utxos.confirmed # <<>>
    /\ last_claim_tx.result.error = "Unexpected lock address type"

\* C20: create_claim_tx returns a transaction only for a record whose lockup
\* address is the P2WSH address of the record's redeem script.
C20_LockupDerivedFromScript ==
    (last_claim_tx.called /\ last_claim_tx.result.kind = "Ok") =>
        LET lockup == AddressFromStr(last_claim_tx.rs.cache.lockup_address)
        IN  /\ lockup.address_type = "P2wsh"
            /\ lockup.script = last_claim_tx.rs.redeem_script

\* the outputs named in a list of UTXOs
OutsOf(utxos) == { utxos[k].out : k \in 1 .. Len(utxos) }

\* C21: a transaction that create_claim_tx returns has one input for each
\* confirmed output at the lockup address, in the order of the lookup, each
\* with an empty script_sig; it has no input for an unconfirmed output and
\* exactly one output, which pays the record's destination_address.
C21_InputsAndOutput ==
    (last_claim_tx.called /\ last_claim_tx.result.kind = "Ok") =>
        LET tx        == last_claim_tx.result.tx
            confirmed == last_claim_tx.utxos.confirmed
        IN  /\ Len(tx.input) = Len(confirmed)
            /\ \A k \in 1 .. Len(tx.input) :
                  /\ tx.input[k].previous_output = confirmed[k].out
                  /\ tx.input[k].script_sig = <<>>
                  /\ tx.input[k].previous_output \notin OutsOf(last_claim_tx.utxos.unconfirmed)
            /\ Len(tx.output) = 1
            /\ tx.output[1].script_pubkey =
                  script_pubkey(AddressFromStr(last_claim_tx.rs.destination_address))
            /\ tx.output[1].script_pubkey.commits_to = "key_D"

\* C21 witness: create_claim_tx has returned a transaction for an address
\* with two confirmed outputs and an unconfirmed one.
C21_Witness ==
    /\ last_claim_tx.called
    /\ last_claim_tx.result.kind = "Ok"
    /\ Len(last_claim_tx.utxos.confirmed) = 2
    /\ last_claim_tx.utxos.unconfirmed # <<>>

\* C22: in a transaction that create_claim_tx returns, the witness of every
\* input is the stack of the signature with its sighash byte, the record's
\* local_preimage and the redeem script, in this order; the signature of
\* input k is made with the record's private key over the hash for input k,
\* the redeem script as script code and the value of the k-th confirmed
\* output.
C22_WitnessStack ==
    (last_claim_tx.called /\ last_claim_tx.result.kind = "Ok") =>
        LET tx == last_claim_tx.result.tx
            rs == last_claim_tx.rs
        IN  \A k \in 1 .. Len(tx.input) :
                LET witness == tx.input[k].witness
                    msg     == witness[1].der[3]
                IN  /\ Len(witness) = 3
                    /\ witness[1].sighash_byte = "All"
                    /\ witness[1].der[2] = rs.local_private_key
                    /\ witness[2] = rs.local_preimage
                    /\ witness[3] = rs.redeem_script
                    /\ msg.input_index = k
                    /\ msg.script_code = rs.redeem_script
                    /\ msg.value = last_claim_tx.utxos.confirmed[k].value
                    /\ msg.sighash_type = "All"
                    /\ msg.outputs = tx.output
                    /\ msg.prevouts = [j \in 1 .. Len(tx.input) |-> tx.input[j].previous_output]

\* C22 witness: create_claim_tx has returned a transaction that spends two
\* confirmed outputs of different values.
C22_Witness ==
    /\ last_claim_tx.called
    /\ last_claim_tx.result.kind = "Ok"
    /\ Len(last_claim_tx.utxos.confirmed) = 2
    /\ last_claim_tx.utxos.confirmed[1].value # last_claim_tx.utxos.confirmed[2].value

C24_CreateAtomic ==
    [][/\ Len(reverse_swaps') = Len(reverse_swaps_info')
       /\ \A k \in 1 .. Len(reverse_swaps') : reverse_swaps'[k].id = reverse_swaps_info'[k].id
       /\ list_reverse_swaps(reverse_swaps', reverse_swaps_info', FALSE).kind = "Ok"
       /\ (/\ last_create'.called
           /\ last_create'.answer.kind = "BoltzApiSuccess"
           /\ last_create'.info = <<>>) =>
              /\ last_create'.result = "Err"
              /\ last_create'.error \in
                    {"connection", "insert_swap", "insert_info", "commit", "UNIQUE constraint failed"}
              /\ reverse_swaps' = reverse_swaps
              /\ reverse_swaps_info' = reverse_swaps_info
              /\ list_reverse_swaps(reverse_swaps', reverse_swaps_info', FALSE) =
                    list_reverse_swaps(reverse_swaps, reverse_swaps_info, FALSE)
              /\ list_monitored(reverse_swaps', reverse_swaps_info', FALSE) =
                    list_monitored(reverse_swaps, reverse_swaps_info, FALSE)]_vars

\* C24 witness: a create call has returned the error of the second INSERT
\* after the provider accepted, while the store holds a swap.
C24_Witness ==
    /\ last_create.called
    /\ last_create.answer.kind = "BoltzApiSuccess"
    /\ last_create.error = "insert_info"
    /\ Len(reverse_swaps) = 1

\* C25: insert_reverse_swap of a record whose id is in the store fails and
\* leaves both tables as they were; the error is that of the violated key
\* unless the connection or the statement failed first.
C25_DuplicateInsertFails ==
    [][(/\ last_store_op'.called
        /\ last_store_op'.op = "insert"
        /\ \E k \in 1 .. Len(reverse_swaps) : reverse_swaps[k].id = last_store_op'.id) =>
          /\ ~last_store_op'.ok
          /\ last_store_op'.fault \notin {"connection", "insert_swap"} =>
                last_store_op'.error = "UNIQUE constraint failed"
          /\ reverse_swaps' = reverse_swaps
          /\ reverse_swaps_info' = reverse_swaps_info]_vars

\* C25 witness: an insert has failed on the key for the id of a stored swap
\* whose status, destination and cache differ from those of the record
\* passed.
C25_Witness ==
    /\ last_store_op.called
    /\ last_store_op.op = "insert"
    /\ last_store_op.error = "UNIQUE constraint failed"
    /\ \E k \in 1 .. Len(reverse_swaps) :
          /\ reverse_swaps[k].id = last_store_op.id
          /\ reverse_swaps[k].boltz_api_status = "LockTxConfirmed"
          /\ reverse_swaps[k].destination_address # last_store_op.rsi.destination_address
          /\ reverse_swaps_info[k].lockup_address # last_store_op.rsi.cache.lockup_address

\* C26: update_reverse_swap_boltz_status for an id that is not in the store
\* fails and leaves the store as it was.
C26_UpdateMissingFails ==
    [][(/\ last_store_op'.called
        /\ last_store_op'.op = "update"
        /\ \A k \in 1 .. Len(reverse_swaps) : reverse_swaps[k].id # last_store_op'.id) =>
          /\ ~last_store_op'.ok
          /\ reverse_swaps' = reverse_swaps
          /\ reverse_swaps_info' = reverse_swaps_info]_vars

\* C27: a restart leaves both tables as they were, so every insert and every
\* status write that succeeded is still there; and the list of swaps a cycle
\* starts with, after a restart as without one, is what list_monitored()
\* reads from the store at that moment.
C27_RestartKeepsStore ==
    [][\A h \in Handlers :
          /\ (task'[h] = IdleTask("none", "none") /\ task[h] # task'[h]) =>
                /\ reverse_swaps' = reverse_swaps
                /\ reverse_swaps_info' = reverse_swaps_info
          /\ (task[h].pc = "idle" /\ task'[h].pc = "refresh") =>
                /\ task'[h].to_check =
                      list_monitored(reverse_swaps, reverse_swaps_info, FALSE).list
                /\ trace'[h] = EmptyTrace]_vars

\* C27 witness: the process has been restarted after a poll had persisted a
\* swap as LockTxConfirmed, and the store still holds a second swap created
\* after that.
C27_Witness ==
    /\ task["h1"] = IdleTask("none", "none")
    /\ Len(reverse_swaps) = 2
    /\ reverse_swaps[1].boltz_api_status = "LockTxConfirmed"
    /\ list_monitored(reverse_swaps, reverse_swaps_info, FALSE).kind = "Ok"
    /\ Len(list_monitored(reverse_swaps, reverse_swaps_info, FALSE).list) = 2

\* handler h is inside its monitoring cycle of swap id: it has polled id and
\* has not yet gone past id in its claim loop
InCycleOf(h, id) ==
    /\ id \in trace[h].polled
    /\ \/ task[h].pc = "refresh"
       \/ /\ task[h].pc = "claim"
          /\ \E k \in task[h].i .. Len(task[h].monitored) : task[h].monitored[k].id = id

\* C28: two handlers are never inside the monitoring cycle of the same swap
\* at once, and two handlers running at once never both build and broadcast
\* a claim for the same swap.
C28_SerializedPerId ==
    \A id \in SwapIds :
        /\ ~(InCycleOf("h1", id) /\ InCycleOf("h2", id))
        /\ ~(id \in Range(trace["h1"].broadcast) /\ id \in Range(trace["h2"].broadcast))

\* the persisted boltz_api_status values of swap id
PersistedStatusOf(swaps, id) ==
    { swaps[k].boltz_api_status : k \in { j \in 1 .. Len(swaps) : swaps[j].id = id } }

\* C29: a step in which a handler builds and broadcasts a claim for a swap
\* starts in a state where the persisted status of that swap is
\* LockTxConfirmed.
C29_ClaimReadsPersistedStatus ==
    [][\A h \in Handlers :
          Len(trace'[h].broadcast) > Len(trace[h].broadcast) =>
              PersistedStatusOf(reverse_swaps,
                                trace'[h].broadcast[Len(trace'[h].broadcast)])
                  = {"LockTxConfirmed"}]_vars

\* C30: a create call whose destination address parses but belongs to
\* another network than the configured one returns the invalid-address
\* error, makes no call to the provider and leaves both tables of the swap
\* store as they were.
C30_OtherNetworkRejected ==
    [][(/\ last_create'.called
        /\ AddressFromStr(last_create'.destination_address).ok
        /\ AddressFromStr(last_create'.destination_address).network # _network) =>
          /\ last_create'.result = "Err"
          /\ last_create'.error = "Invalid destination address"
          /\ last_create'.requests = <<>>
          /\ reverse_swaps' = reverse_swaps
          /\ reverse_swaps_info' = reverse_swaps_info]_vars

\* C31: the request of a create call that stored a record consists of the
\* requested amount, the SHA-256 hash of the preimage of the stored record,
\* the public key of the private key of the stored record, pair_hash and
\* routing_node, and of nothing else; the record returned holds the same
\* preimage and private key as the stored one.
C31_RequestCarriesHashAndPubkey ==
    [][(last_create'.called /\ last_create'.result = "Ok") =>
          \E k \in 1 .. Len(reverse_swaps') :
              LET row  == reverse_swaps'[k]
                  keys == [preimage |-> row.local_preimage, priv_key |-> row.local_private_key]
              IN  /\ row.id = last_create'.info[1].id
                  /\ last_create'.info[1].local_preimage = row.local_preimage
                  /\ last_create'.info[1].local_private_key = row.local_private_key
                  /\ last_create'.requests =
                        << [amount_sat |-> last_create'.requests[1].amount_sat,
                            preimage_hash_hex |-> preimage_hash_bytes(keys),
                            pubkey_hex |-> public_key(keys),
                            pair_hash |-> "pair_hash",
                            routing_node |-> "routing_node"] >>
                  /\ last_create'.requests[1].amount_sat \in RequestedAmounts]_vars

\* C31 witness: a create call has stored a second swap whose preimage and
\* private key differ from those of the first.
C31_Witness ==
    /\ last_create.called
    /\ last_create.result = "Ok"
    /\ Len(reverse_swaps) = 2
    /\ reverse_swaps[2].id = last_create.info[1].id
    /\ reverse_swaps[1].local_preimage # reverse_swaps[2].local_preimage
    /\ reverse_swaps[1].local_private_key # reverse_swaps[2].local_private_key

\* a log line prints the preimage or the private key of a swap
ExposesSecret(line) ==
    /\ line.rs # <<>>
    /\ {"local_preimage", "local_private_key"} \cap DOMAIN line.rs[1].fields # {}

C33_SignedUrlParameters ==
    (last_sign_url.called /\ last_sign_url.requests # <<>>) =>
        LET request == last_sign_url.requests[1]
            config  == last_sign_url.config
            pairs   == query_pairs(Tail(request.query_string))
            Has(name, value) == \E j \in 1 .. Len(pairs) : pairs[j] = <<<<name>>, value>>
        IN  /\ Len(last_sign_url.requests) = 1
            /\ request.base_url = config.base_url
            /\ Head(request.query_string) = "?"
            /\ Has("apiKey", config.api_key)
            /\ Has("currencyCode", config.currency_code)
            /\ Has("colorCode", config.color_code)
            /\ Has("redirectURL", config.redirect_url)
            /\ Has("enabledPaymentMethods", config.enabled_payment_methods)
            /\ Has("walletAddress", last_sign_url.url_data.bitcoin_address)
            /\ Has("maxQuoteCurrencyAmount", last_sign_url.url_data.max_allowed_deposit)
            /\ last_sign_url.kind # "status" =>
                  /\ last_sign_url.result = "Ok"
                  /\ last_sign_url.signed_url =
                        SignUrlResponse(last_sign_url.kind, request).full_url

\* C33 witness: a call whose wallet address holds an ampersand and an equals
\* sign has returned the URL the service signed.
C33_Witness ==
    /\ last_sign_url.called
    /\ last_sign_url.result = "Ok"
    /\ last_sign_url.kind = "signed"
    /\ last_sign_url.url_data.bitcoin_address = <<"&", "=">>

\* C34: a step in which a claim broadcast fails leaves both tables as they
\* were and moves the handler on to the next swap of its list; when the
\* claim loop of a cycle with a failed broadcast has gone through its list,
\* a broadcast was attempted for every swap of the list in status
\* LockTxConfirmed, and the handler returns Ok.
C34_BroadcastFailureOnlyLogged ==
    [][\A h \in Handlers :
          /\ (trace'[h].broadcast_failed # {} /\
              Len(trace'[h].broadcast) > Len(trace[h].broadcast) /\
              trace'[h].broadcast[Len(trace'[h].broadcast)] \in trace'[h].broadcast_failed) =>
                /\ reverse_swaps' = reverse_swaps
                /\ reverse_swaps_info' = reverse_swaps_info
                /\ task'[h] = [task[h] EXCEPT !.i = @ + 1]
          /\ (/\ task[h].pc = "claim"
              /\ task[h].i > Len(task[h].monitored)
              /\ trace[h].broadcast_failed # {}
              /\ task'[h] # task[h]) =>
                /\ task'[h] = IdleTask("NewBlock", "Ok")
                /\ reverse_swaps' = reverse_swaps
                /\ \A k \in 1 .. Len(task[h].monitored) :
                      task[h].monitored[k].boltz_api_status = "LockTxConfirmed" =>
                          task[h].monitored[k].id \in Range(trace[h].broadcast)]_vars

\* C34 witness: a cycle is at its end after the broadcast for the first of
\* two confirmed swaps failed and the broadcast for the second succeeded.
C34_Witness ==
    /\ task["h1"].pc = "claim"
    /\ task["h1"].i > Len(task["h1"].monitored)
    /\ Len(trace["h1"].broadcast) = 2
    /\ trace["h1"].broadcast_failed = {trace["h1"].broadcast[1]}
    /\ trace["h1"].broadcast[1] # trace["h1"].broadcast[2]

\* C35: when chain-tip events keep arriving and the services behave well
\* for a swap persisted as LockTxConfirmed, the persisted status of that swap
\* is eventually terminal and the swap out of list_monitored(), whatever the
\* services answer for the other monitored swap.
C35_TargetEventuallyTerminal ==
    <>(/\ status(reverse_swaps[Len(reverse_swaps)]) \in non_monitored_states
       /\ reverse_swaps[Len(reverse_swaps)].id \notin IdsOf(MonitoredNow.list))

\* C36: with two handlers at work, no step takes a swap whose persisted
\* status is terminal back to a persisted status that is not terminal.
C36_TerminalStaysTerminal ==
    [][\A k \in 1 .. Len(reverse_swaps) :
          status(reverse_swaps[k]) \in non_monitored_states =>
              /\ Len(reverse_swaps') >= k
              /\ reverse_swaps'[k].id = reverse_swaps[k].id
              /\ status(reverse_swaps'[k]) \in non_monitored_states]_vars

\* C37: an iteration of the refresh loop either gets the status of its swap
\* and moves on to the next one, or, when the poll fails, ends the handler
\* with the error: that step leaves every row of the store as the cycle's
\* earlier iterations wrote it, and the cycle has built and broadcast no
\* claim and does not go on to.
C37_PollFailureEndsCycle ==
    [][\A h \in Handlers :
          (/\ task[h].pc = "refresh"
           /\ task[h].i <= Len(task[h].to_check)
           /\ task'[h] # task[h]) =>
              \/ /\ task'[h] = [task[h] EXCEPT !.i = @ + 1]
                 /\ task[h].to_check[task[h].i].id \in trace'[h].polled
              \/ /\ task'[h] = IdleTask("NewBlock", "Err")
                 /\ reverse_swaps' = reverse_swaps
                 /\ reverse_swaps_info' = reverse_swaps_info
                 /\ trace[h].built = <<>>
                 /\ trace[h].broadcast = <<>>
                 /\ trace'[h] = EmptyTrace]_vars

\* C37 witness: the handler has returned an error with the first of two
\* swaps persisted in the status of a poll and the second still as created.
C37_Witness ==
    /\ task["h1"] = IdleTask("NewBlock", "Err")
    /\ Len(reverse_swaps) = 2
    /\ reverse_swaps[1].boltz_api_status = "LockTxMempool"
    /\ reverse_swaps[2].boltz_api_status = SwapCreated

\* C38: in every state each row of reverse_swaps has exactly one row of
\* reverse_swaps_info with its id; list_reverse_swaps and list_monitored, on
\* a working connection, return without panic, the former one record per row
\* of reverse_swaps in the order of the rows, and neither returns an id
\* twice.
C38_OneCacheRowPerSwap ==
    LET all == list_reverse_swaps(reverse_swaps, reverse_swaps_info, FALSE)
    IN  /\ \A k \in 1 .. Len(reverse_swaps) :
              Cardinality({ j \in 1 .. Len(reverse_swaps_info) :
                              reverse_swaps_info[j].id = reverse_swaps[k].id }) = 1
        /\ all.kind = "Ok"
        /\ Len(all.list) = Len(reverse_swaps)
        /\ \A k \in 1 .. Len(all.list) :
              /\ all.list[k].id = reverse_swaps[k].id
              /\ Count([j \in 1 .. Len(all.list) |-> all.list[j].id], all.list[k].id) = 1
        /\ MonitoredNow.kind = "Ok"
        /\ \A k \in 1 .. Len(MonitoredNow.list) :
              Count([j \in 1 .. Len(MonitoredNow.list) |-> MonitoredNow.list[j].id],
                    MonitoredNow.list[k].id) = 1

\* C38 witness: the store holds two swaps, one of them with a terminal
\* status, while a handler is in its refresh loop.
C38_Witness ==
    /\ Len(reverse_swaps) = 2
    /\ Len(list_reverse_swaps(reverse_swaps, reverse_swaps_info, FALSE).list) = 2
    /\ Len(MonitoredNow.list) = 1
    /\ task["h1"].pc = "refresh"

\* C39: in a create_claim_tx call that gets as far as the fee, the 32-bit
\* product weight * sat_per_vbyte does not leave 32 bits, the call does not
\* panic on a multiplication, and the fee of a returned transaction is the
\* value of weight * sat_per_vbyte / 4 over the unbounded integers.
C39_FeeArithmeticNeverWraps ==
    ClaimTxComputed =>
        LET n      == Len(last_claim_tx.utxos.confirmed)
            dest   == AddressFromStr(last_claim_tx.rs.destination_address)
            weight == strippedsize(n, dest) * WITNESS_SCALE_FACTOR
                      + refund_witness_input_size * n
            rate   == last_claim_tx.recommended_fees.half_hour_fee
        IN  /\ ~MulU32(ToU32(weight), ToU32(rate)).carry
            /\ last_claim_tx.result.error # "attempt to multiply with overflow"
            /\ last_claim_tx.result.kind = "Ok" =>
                  last_claim_tx.result.fees =
                      weight * (rate \div WITNESS_SCALE_FACTOR)
                      + (weight * (rate % WITNESS_SCALE_FACTOR)) \div WITNESS_SCALE_FACTOR

====
